---- MODULE Spec2Model ----
(***************************************************************************)
(* The concurrent ticket crawl of jira-fetcher.py (main's executor loop    *)
(* and worker_process_issue) and the permit pools that bound the remote    *)
(* calls of jira-fetcher.py, confluence_client.py and cake/clients/base.py.*)
(***************************************************************************)
EXTENDS Integers, Sequences, FiniteSets, TLC

\* ------------------------------------------------------------ constants

MAX_RESULTS_PER_JIRA_PAGE == 100
MAX_CONCURRENT_JIRA_CALLS == 5
MAX_CONCURRENT_GDRIVE_CALLS == 2
CONFLUENCE_MAX_CONCURRENT_CALLS == 5
BASE_CLIENT_MAX_CONCURRENT_CALLS == 5
MAX_WORKERS == 10
\* Page sizes: "limit" of fetch_child_pages and of _paginated_request, and
\* pageSize of the drive's folder listing.
fetch_child_pages_limit == 100
paginated_request_limit == 100
pageSize == 100

\* Cap on the number of tasks main submits to the executor in one run.
MaxTasks == 5
\* The largest number of items a remote listing holds, and the latest request
\* of a listing that fails.
MaxItems == 250
MaxFailAt == 3

Keys == {"A", "B", "C", "D"}

\* Lock holders: 0 is "unlocked", a task holds it under its index.
Free == 0
MainThread == -1

VARIABLES
    sc,                              \* the remote ticket graph and the faults of this run
    mainpc,                          \* main's position
    cur,                             \* main: current_issue_obj_raw
    active_futures,                  \* main: active_futures
    scanlist,                        \* main: the rest of list(futures.items())
    completed_futures_this_round,    \* main
    futures,                         \* main: key -> task index
    tasks,                           \* the executor's tasks, in submission order
    issues_processing_queue,         \* queue.Queue of issue objects
    master_issues_map,               \* key -> record
    keys_submitted_to_executor_set,
    map_and_queue_lock,
    globally_processed_issue_keys,
    permits,                         \* free permits of each semaphore
    calls,                           \* remote calls in flight, by call site (permit model)
    lastOutcome,                     \* how the last finished remote call ended (permit model)
    contentFetches,                  \* per key: issue JSONs of it received from the remote
    workerPuts,                      \* per key: queue puts by workers
    callFailed,                      \* some remote call of the crawl failed
    output,                          \* main: all_data as saved to the export file
    remoteFetches,                   \* per wiki page / drive item: content fetches of it
    pager,                           \* one call of a fetcher function, request by request
    extraction,                      \* one call of an id extraction on a URL
    walk,                            \* one recursive content fetch, call by call
    threads                          \* the executor's threads and main, by position

vars == << sc, mainpc, cur, active_futures, scanlist, completed_futures_this_round,
           futures, tasks, issues_processing_queue, master_issues_map,
           keys_submitted_to_executor_set, map_and_queue_lock,
           globally_processed_issue_keys, permits, calls, lastOutcome,
           contentFetches, workerPuts, callFailed, output, remoteFetches, pager,
           extraction, walk, threads >>

mainVars == << mainpc, cur, active_futures, scanlist, completed_futures_this_round, futures,
               output >>
histVars == << contentFetches, workerPuts, callFailed, remoteFetches >>
sideVars == << calls, lastOutcome, pager, extraction, walk, threads >>

\* ------------------------------------------------------------ the remote ticket graph

NoRefs == [k \in Keys |-> << >>]

\* One remote link of an issue: the service its URL belongs to, the id the URL
\* carries ("" when none can be extracted) and whether its 'object' is a dict.
RemoteLink(service, id, object_is_dict) ==
    [ service |-> service, id |-> id, object_is_dict |-> object_is_dict ]

\* ------------------------------------------------------------ remote link URLs

\* A URL is a sequence of symbols: the separators "/", "?", "&", "=" and
\* words.  Python's "sub in s", s.split(sep) and list.index on such sequences.
Find(s, sub) ==
    LET hits == { i \in 1 .. (Len(s) - Len(sub) + 1) : SubSeq(s, i, i + Len(sub) - 1) = sub }
    IN  IF hits = {} THEN 0 ELSE CHOOSE i \in hits : \A j \in hits : i <= j
Contains(s, sub) == Find(s, sub) # 0
RECURSIVE Split(_, _)
Split(s, sep) ==
    LET i == Find(s, sep)
    IN  IF i = 0 THEN << s >>
        ELSE << SubSeq(s, 1, i - 1) >> \o Split(SubSeq(s, i + Len(sep), Len(s)), sep)
IsIn(x, list) == \E i \in DOMAIN list : list[i] = x
Index(list, x) == CHOOSE i \in DOMAIN list : list[i] = x /\ \A j \in 1 .. (i - 1) : list[j] # x

\* The words made of decimal digits, and str.isdigit.
DigitWords == { "101", "102" }
isdigit(part) == part # << >> /\ \A i \in DOMAIN part : part[i] \in DigitWords

\* What an extraction returns: an id, or None.
NoId == [ found |-> FALSE, id |-> << >> ]
Id(part) == [ found |-> TRUE, id |-> part ]
\* "if page_id:" / "if gdrive_id:"
Truthy(r) == r.found /\ r.id # << >>

\* is_google_drive_link and ConfluenceClient.is_confluence_url
is_google_drive_link(url_string) ==
    url_string # << >> /\ Contains(url_string, << "drive.google.com", "/" >>)
is_confluence_url(url) ==
    \/ Contains(url, << "x.atlassian.net", "/", "wiki", "/", "spaces", "/" >>)
    \/ Contains(url, << "/", "wiki", "/", "pages", "/" >>)
    \/ Contains(url, << "/", "wiki", "/", "spaces", "/" >>)

\* extract_google_drive_id: "open?id=" first, then the path segment after
\* 'd', 'folders' or 'file' in url_string.split('/').
extract_google_drive_id(url_string) ==
    IF url_string = << >> THEN NoId
    ELSE IF Contains(url_string, << "open", "?", "id", "=" >>)
    THEN Id(Split(Split(url_string, << "open", "?", "id", "=" >>)[2], << "&" >>)[1])
    ELSE LET parts == Split(url_string, << "/" >>)
             After(word) == parts[Index(parts, << word >>) + 1]
             HasNext(word) == Index(parts, << word >>) + 1 <= Len(parts)
         IN  IF IsIn(<< "/", "d", "/" >>, parts)
             THEN IF IsIn(<< "d" >>, parts) /\ HasNext("d") THEN Id(After("d")) ELSE NoId
             ELSE IF IsIn(<< "folders" >>, parts)
             THEN IF HasNext("folders") THEN Id(Split(After("folders"), << "?" >>)[1]) ELSE NoId
             ELSE IF IsIn(<< "file" >>, parts)
             THEN IF HasNext("file") THEN Id(Split(After("file"), << "?" >>)[1]) ELSE NoId
             ELSE NoId

\* ConfluenceClient.extract_page_id_from_url
extract_page_id_from_url(url) ==
    IF Contains(url, << "?", "pageId", "=" >>)
    THEN Id(Split(Split(url, << "?", "pageId", "=" >>)[2], << "&" >>)[1])
    ELSE IF Contains(url, << "/", "pages", "/" >>)
    THEN LET parts == Split(url, << "/", "pages", "/" >>)
         IN  IF Len(parts) > 1
             THEN LET page_id_part == Split(parts[2], << "/" >>)[1]
                  IN  IF isdigit(page_id_part) THEN Id(page_id_part) ELSE NoId
             ELSE NoId
    ELSE NoId

\* The URL shapes of the two services, each with the id it embeds: the drive's
\* open?id=ID, file/d/ID, drive/folders/ID, file/ID and a URL without an id;
\* the wiki's ...?pageId=ID, .../pages/ID and a space overview.
DriveHost == << "https:", "/", "/", "drive.google.com", "/" >>
WikiHost == << "https:", "/", "/", "x.atlassian.net", "/", "wiki", "/" >>
DriveShapes == { "open_id", "file_d", "folders", "u_folders", "file", "my_drive" }
WikiShapes == { "page_id_param", "pages_segment", "overview" }
DriveUrl(shape, id) ==
    DriveHost \o
    CASE shape = "open_id" -> << "open", "?", "id", "=", id >>
      [] shape = "file_d" -> << "file", "/", "d", "/", id >>
      [] shape = "folders" -> << "drive", "/", "folders", "/", id >>
      [] shape = "u_folders" -> << "drive", "/", "u", "/", "0", "/", "folders", "/", id >>
      [] shape = "file" -> << "file", "/", id >>
      [] shape = "my_drive" -> << "drive", "/", "my-drive" >>
WikiUrl(shape, id) ==
    WikiHost \o
    CASE shape = "page_id_param" -> << "pages", "/", "viewpage.action", "?", "pageId", "=", id >>
      [] shape = "pages_segment" -> << "spaces", "/", "S", "/", "pages", "/", id >>
      [] shape = "overview" -> << "spaces", "/", "S", "/", "overview" >>
\* The remote link of a URL, as the link loop classifies it: the service by
\* is_confluence_url / is_google_drive_link, the id by the service's extraction.
UrlLink(url) ==
    LET r == IF is_confluence_url(url) THEN extract_page_id_from_url(url)
             ELSE IF is_google_drive_link(url) THEN extract_google_drive_id(url)
             ELSE NoId
    IN  RemoteLink(IF is_confluence_url(url) THEN "confluence"
                   ELSE IF is_google_drive_link(url) THEN "gdrive" ELSE "other",
                   IF Truthy(r) THEN r.id[1] ELSE "", TRUE)

\* One run's input: the seed issues the entry query returned, each issue's
\* fields.subtasks, fields.issuelinks (in server order) and epic children, the
\* keys whose content fetch fails, and the keys whose worker raises.  A run
\* is in jql mode with --skip-remote-content off unless stated otherwise, its
\* issues have no remote links and every remote-link request succeeds.
Scenario(name, seeds, subtasks, issuelinks, epic_children, failKeys, raisers) ==
    [ name |-> name, seeds |-> seeds, subtasks |-> subtasks, issuelinks |-> issuelinks,
      epic_children |-> epic_children,
      epics |-> { k \in Keys : epic_children[k] # << >> } \cup (IF name = "epic" THEN {"C"} ELSE {}),
      failKeys |-> failKeys, raisers |-> raisers,
      mode |-> "jql", seed_fetch_fails |-> FALSE, skip_remote |-> FALSE,
      remotelinks |-> NoRefs, expanded |-> {}, rl_outcome |-> [k \in Keys |-> "ok"] ]

\* Runs whose issues have remote links.  A (an Epic with the child C, which
\* is also its sub-task, and a link to B) and B name wiki pages and drive items, partly the
\* same ones; A also has a link to neither service, a wiki link without a page
\* id and a link whose 'object' is no dict.  B's links come expanded in its JSON.
\* C's links are a wiki URL and a drive URL from which no id can be extracted,
\* followed by a drive URL of the file D1.
RemoteLinkScenarios ==
    LET crawl == Scenario("wiki", <<"A">>, [NoRefs EXCEPT !["A"] = <<"C">>],
                          [NoRefs EXCEPT !["A"] = <<"B">>],
                          [NoRefs EXCEPT !["A"] = <<"C">>], {}, {})
        linked == [crawl EXCEPT
                      !.remotelinks =
                          [NoRefs EXCEPT
                              !["A"] = << RemoteLink("confluence", "P1", TRUE),
                                          RemoteLink("confluence", "P3", TRUE),
                                          RemoteLink("gdrive", "F1", TRUE),
                                          RemoteLink("other", "", TRUE),
                                          RemoteLink("confluence", "", TRUE),
                                          RemoteLink("confluence", "P2", FALSE) >>,
                              !["B"] = << RemoteLink("confluence", "P1", TRUE),
                                          RemoteLink("gdrive", "D1", TRUE) >>,
                              !["C"] = << UrlLink(WikiUrl("pages_segment", "abc") \o << "/", "Title" >>),
                                          UrlLink(DriveUrl("my_drive", "")),
                                          UrlLink(DriveUrl("open_id", "D1")) >>],
                      !.expanded = {"B"}]
    IN  { linked,
          [linked EXCEPT !.name = "skip", !.skip_remote = TRUE],
          [crawl EXCEPT !.name = "rl404",
                        !.rl_outcome = [k \in Keys |-> IF k \in {"A", "C"} THEN "404" ELSE "ok"],
                        !.remotelinks = [NoRefs EXCEPT
                                            !["A"] = << RemoteLink("confluence", "P1", TRUE) >>,
                                            !["B"] = << RemoteLink("other", "", TRUE) >>]],
          [crawl EXCEPT !.name = "rlerr",
                        !.rl_outcome = [k \in Keys |-> IF k = "A" THEN "http_error"
                                                       ELSE IF k = "B" THEN "network_error"
                                                       ELSE "ok"],
                        !.remotelinks = [NoRefs EXCEPT
                                            !["A"] = << RemoteLink("confluence", "P1", TRUE) >>]] }

Scenarios ==
    { Scenario("chain", <<"A">>, NoRefs,
               [NoRefs EXCEPT !["A"] = <<"B", "C">>, !["C"] = <<"D">>], NoRefs, {}, {}),
      Scenario("shared", <<"A", "B">>, NoRefs,
               [NoRefs EXCEPT !["A"] = <<"C">>, !["B"] = <<"C">>], NoRefs, {}, {}),
      Scenario("cycle", <<"A">>, NoRefs,
               [NoRefs EXCEPT !["A"] = <<"B">>, !["B"] = <<"C">>, !["C"] = <<"A">>],
               NoRefs, {}, {}),
      Scenario("mixed", <<"A">>, [NoRefs EXCEPT !["A"] = <<"B">>],
               [NoRefs EXCEPT !["A"] = <<"B", "C", "B">>, !["B"] = <<"A">>], NoRefs, {}, {}),
      Scenario("epic", <<"A">>, [NoRefs EXCEPT !["B"] = <<"C">>], NoRefs,
               [NoRefs EXCEPT !["A"] = <<"B", "C">>], {}, {}),
      Scenario("dupseed", <<"A", "A">>, NoRefs, [NoRefs EXCEPT !["A"] = <<"B">>],
               NoRefs, {}, {}),
      Scenario("failB", <<"A">>, NoRefs, [NoRefs EXCEPT !["A"] = <<"B", "C">>],
               NoRefs, {"B"}, {}),
      Scenario("failSub", <<"A">>, [NoRefs EXCEPT !["A"] = <<"B">>],
               [NoRefs EXCEPT !["A"] = <<"C">>], NoRefs, {"B"}, {}),
      Scenario("seedref", <<"A", "B">>, NoRefs,
               [NoRefs EXCEPT !["A"] = <<"B">>, !["B"] = <<"A">>], NoRefs, {}, {}),
      Scenario("raise", <<"A">>, [NoRefs EXCEPT !["A"] = <<"B">>],
               [NoRefs EXCEPT !["A"] = <<"C">>], NoRefs, {}, {"A", "C"}) }
        \cup RemoteLinkScenarios

\* Runs whose entry query fails or matches nothing.
EntryScenarios ==
    LET one == Scenario("seed", <<"A">>, NoRefs, [NoRefs EXCEPT !["A"] = <<"B">>], NoRefs, {}, {})
    IN  { [one EXCEPT !.name = "issue_ok", !.mode = "issue"],
          [one EXCEPT !.name = "issue_fails", !.mode = "issue", !.seed_fetch_fails = TRUE],
          [one EXCEPT !.name = "jql_fails", !.seed_fetch_fails = TRUE],
          [one EXCEPT !.name = "jql_empty", !.seeds = << >>] }

\* Every link graph over three tickets, crawled from the seed A.
LinkKeys == {"A", "B", "C"}
Others(k) == CASE k = "A" -> <<"B", "C">> [] k = "B" -> <<"A", "C">> [] k = "C" -> <<"A", "B">>
LinkLists(k) == { << >>, << Others(k)[1] >>, << Others(k)[2] >>, Others(k) }
LinkGraphs ==
    { Scenario("links", <<"A">>, NoRefs, [NoRefs EXCEPT !["A"] = a, !["B"] = b, !["C"] = c],
               NoRefs, {}, {}) :
          a \in LinkLists("A"), b \in LinkLists("B"), c \in LinkLists("C") }

Range(s) == { s[i] : i \in DOMAIN s }

\* The list without its repeated elements, first occurrences in order
\* (computed by halves, so that long lists stay within TLC's stack).
RECURSIVE Dedup(_)
Dedup(s) ==
    IF Len(s) <= 1 THEN s
    ELSE LET half == Len(s) \div 2
             left == Dedup(SubSeq(s, 1, half))
             right == Dedup(SubSeq(s, half + 1, Len(s)))
         IN  left \o SelectSeq(right, LAMBDA x : x \notin Range(left))

Min(a, b) == IF a < b THEN a ELSE b

\* The remote's answer to a page request: at most `limit` items from offset `start`.
ServerPage(items, start, limit) ==
    SubSeq(items, start + 1, Min(start + limit, Len(items)))

\* Mutant: the search stops only at a page that is empty or short.
SearchDoneOnShortPage(current_page_issues, start_at, total_issues_on_server) ==
    Len(current_page_issues) < MAX_RESULTS_PER_JIRA_PAGE

\* "if not current_page_issues or (start_at + len(current_page_issues)) >=
\* total_issues_on_server: break"
SearchDone(current_page_issues, start_at, total_issues_on_server) ==
    \/ current_page_issues = << >>
    \/ start_at + Len(current_page_issues) >= total_issues_on_server

\* search_jira_with_jql on a query that matches `matching` on the server: the
\* pages are fetched from start_at on and collected in all_issues; a failing
\* page request ends the loop with what was collected.
RECURSIVE SearchPages(_, _, _, _)
SearchPages(matching, fails, start_at, all_issues) ==
    IF fails THEN all_issues
    ELSE LET current_page_issues == ServerPage(matching, start_at, MAX_RESULTS_PER_JIRA_PAGE)
         IN  IF SearchDone(current_page_issues, start_at, Len(matching))
             THEN all_issues \o current_page_issues
             ELSE SearchPages(matching, fails, start_at + Len(current_page_issues),
                              all_issues \o current_page_issues)

\* The request for a batch fails when the content of one of its keys cannot be fetched.
SearchFails(matching) == Range(matching) \cap sc.failKeys # {}

search_jira_with_jql(matching) == SearchPages(matching, SearchFails(matching), 0, << >>)

\* fetch_subtasks: no call without sub-task keys, else one batched query.
SubtaskKeys(k) == sc.subtasks[k]
\* fetch_linked_issues: the keys are collected in a set.
LinkedKeys(k) == Dedup(sc.issuelinks[k])
EpicChildKeys(k) == sc.epic_children[k]
\* fields.issuetype.name = "Epic"
IsEpic(k) == k \in sc.epics

\* ------------------------------------------------------------ remote content

\* The wiki: each page's child pages in server order (P3 lists its ancestor P1).
ChildPages ==
    [ P1 |-> <<"P2", "P3">>, P2 |-> <<"P3">>, P3 |-> <<"P1">> ]
\* The drive: folders with their children, and one file.
DriveFolders == { "F1", "F2" }
DriveChildren ==
    [ F1 |-> <<"F2", "D1">>, F2 |-> <<"D1", "F1">>, D1 |-> << >> ]

\* The result of one recursive fetch: kind "page" / "item" with its children,
\* "already_visited" for the drive's marker, "none" for Python's None.
ContentNode(kind, id, children) == [ kind |-> kind, id |-> id, children |-> children ]
None == ContentNode("none", "", << >>)

\* ConfluenceClient.fetch_content_recursive(page_id, visited_pages): the
\* returned dictionary, the visited set as the call leaves it, and the pages
\* whose content was requested, in order.
RECURSIVE fetch_content_recursive(_, _)
RECURSIVE ConfluenceChildLoop(_, _, _)
fetch_content_recursive(page_id, visited_pages) ==
    IF page_id \in visited_pages
    THEN [ ret |-> None, visited |-> visited_pages, fetched |-> << >> ]
    ELSE LET loop == ConfluenceChildLoop(ChildPages[page_id], 1,
                         [ children |-> << >>, visited |-> visited_pages \cup {page_id},
                           fetched |-> << page_id >> ])
         IN  [ ret |-> ContentNode("page", page_id, loop.children),
               visited |-> loop.visited, fetched |-> loop.fetched ]

\* "for child_summary in child_pages_summary": a child's result is appended
\* when it is truthy.
ConfluenceChildLoop(child_pages_summary, i, acc) ==
    IF i > Len(child_pages_summary) THEN acc
    ELSE LET child == fetch_content_recursive(child_pages_summary[i], acc.visited)
         IN  ConfluenceChildLoop(child_pages_summary, i + 1,
                 [ children |-> IF child.ret # None THEN Append(acc.children, child.ret)
                                ELSE acc.children,
                   visited |-> child.visited,
                   fetched |-> acc.fetched \o child.fetched ])

\* fetch_google_drive_item_recursive(service, item_id, visited_ids).
RECURSIVE fetch_google_drive_item_recursive(_, _)
RECURSIVE DriveChildLoop(_, _, _)
fetch_google_drive_item_recursive(item_id, visited_ids) ==
    IF item_id \in visited_ids
    THEN [ ret |-> ContentNode("already_visited", item_id, << >>),
           visited |-> visited_ids, fetched |-> << >> ]
    ELSE LET start == [ children |-> << >>, visited |-> visited_ids \cup {item_id},
                        fetched |-> << item_id >> ]
             loop == IF item_id \in DriveFolders
                     THEN DriveChildLoop(DriveChildren[item_id], 1, start)
                     ELSE start
         IN  [ ret |-> ContentNode("item", item_id, loop.children),
               visited |-> loop.visited, fetched |-> loop.fetched ]

DriveChildLoop(children, i, acc) ==
    IF i > Len(children) THEN acc
    ELSE LET child == fetch_google_drive_item_recursive(children[i], acc.visited)
         IN  DriveChildLoop(children, i + 1,
                 [ children |-> Append(acc.children, child.ret),
                   visited |-> child.visited,
                   fetched |-> acc.fetched \o child.fetched ])

\* Mutant: HTTP 404 is treated as an error that reaches the worker.
fetch_remote_links_404_raises(outcome, links) ==
    [ raised |-> outcome = "404", links |-> IF outcome = "ok" THEN links ELSE << >> ]

\* fetch_remote_links: the list of the response, [] on HTTP 404 and [] on any
\* other request error; it never raises a RequestException.
fetch_remote_links(outcome, links) ==
    [ raised |-> FALSE, links |-> IF outcome = "ok" THEN links ELSE << >> ]

\* An entry of issue_json["remote_links_data"].
LinkData(link) ==
    [ link |-> link, content_skipped |-> FALSE, content |-> None ]

\* Mutant: the pass without its "if skip_remote:" branch.
ProcessLinkIgnoringSkip(entry, skip_remote) ==
    LET l == entry.link
        untouched == [ entry |-> entry, fetched |-> << >> ]
    IN  IF ~l.object_is_dict \/ l.id = "" THEN untouched
        ELSE IF l.service = "confluence"
        THEN LET r == fetch_content_recursive(l.id, {})
             IN  [ entry |-> [entry EXCEPT !.content = r.ret], fetched |-> r.fetched ]
        ELSE IF l.service = "gdrive"
        THEN LET r == fetch_google_drive_item_recursive(l.id, {})
             IN  [ entry |-> [entry EXCEPT !.content = r.ret], fetched |-> r.fetched ]
        ELSE untouched

\* Mutant: the pass without its "if page_id:" / "if gdrive_id:" tests; the
\* fetch is issued with whatever the extraction returned.
ProcessLinkWithoutIdTest(entry, skip_remote) ==
    LET l == entry.link
        untouched == [ entry |-> entry, fetched |-> << >> ]
        requested(kind) ==
            [ entry |-> [entry EXCEPT !.content = ContentNode(kind, "", << >>)],
              fetched |-> << "" >> ]
    IN  IF ~l.object_is_dict THEN untouched
        ELSE IF skip_remote
        THEN [ entry |-> [entry EXCEPT !.content_skipped = TRUE], fetched |-> << >> ]
        ELSE IF l.service = "confluence"
        THEN IF l.id = "" THEN requested("page")
             ELSE LET r == fetch_content_recursive(l.id, {})
                  IN  [ entry |-> [entry EXCEPT !.content = r.ret], fetched |-> r.fetched ]
        ELSE IF l.service = "gdrive"
        THEN IF l.id = "" THEN requested("item")
             ELSE LET r == fetch_google_drive_item_recursive(l.id, {})
                  IN  [ entry |-> [entry EXCEPT !.content = r.ret], fetched |-> r.fetched ]
        ELSE untouched

\* One pass of "for idx, r_link in enumerate(remote_links)" in
\* process_issue_fully: the entry as the pass leaves it and the ids whose
\* content the pass requested.  Each link starts a traversal of its own.
ProcessLink(entry, skip_remote) ==
    LET l == entry.link
        untouched == [ entry |-> entry, fetched |-> << >> ]
    IN  IF ~l.object_is_dict THEN untouched
        ELSE IF skip_remote
        THEN [ entry |-> [entry EXCEPT !.content_skipped = TRUE], fetched |-> << >> ]
        ELSE IF l.service = "confluence"
        THEN IF l.id = "" THEN untouched
             ELSE LET r == fetch_content_recursive(l.id, {})
                  IN  [ entry |-> [entry EXCEPT !.content = r.ret], fetched |-> r.fetched ]
        ELSE IF l.service = "gdrive"
        THEN IF l.id = "" THEN untouched
             ELSE LET r == fetch_google_drive_item_recursive(l.id, {})
                  IN  [ entry |-> [entry EXCEPT !.content = r.ret], fetched |-> r.fetched ]
        ELSE untouched

RECURSIVE ProcessLinkLoop(_, _, _, _)
ProcessLinkLoop(remote_links_data, skip_remote, idx, fetched) ==
    IF idx > Len(remote_links_data)
    THEN [ remote_links_data |-> remote_links_data, fetched |-> fetched ]
    ELSE LET r == ProcessLink(remote_links_data[idx], skip_remote)
         IN  ProcessLinkLoop([remote_links_data EXCEPT ![idx] = r.entry], skip_remote,
                             idx + 1, fetched \o r.fetched)

\* The link loop on each link list an issue of a scenario can carry, tabulated.
RemoteLinkLists ==
    { [ i \in DOMAIN s.remotelinks[k] |-> LinkData(s.remotelinks[k][i]) ] :
          s \in Scenarios \cup LinkGraphs \cup EntryScenarios, k \in Keys }
LinkLoopResult ==
    [ remote_links_data \in RemoteLinkLists |->
          [ skip_remote \in BOOLEAN |->
                ProcessLinkLoop(remote_links_data, skip_remote, 1, << >>) ] ]

\* ------------------------------------------------------------ shared structures

\* An issue JSON object: its key and the response it came from (the seed query,
\* or the sub-task, link or epic query of a parent).  Two responses carrying the
\* same key are two objects.
IssueObj(k, from, via) == << k, from, via >>
KeyOf(obj) == obj[1]

\* The record of a fetched issue as it is first stored, and the placeholders.
FetchedRecord(obj) ==
    [ obj |-> obj, status |-> "fetched", remote_links_data |-> << >>,
      has_subtasks_data |-> FALSE, subtasks_data |-> << >>,
      has_linked_issues_data |-> FALSE, linked_issues_data |-> << >> ]
Placeholder(k, status) ==
    [ obj |-> << k, "placeholder", status >>, status |-> status, remote_links_data |-> << >>,
      has_subtasks_data |-> FALSE, subtasks_data |-> << >>,
      has_linked_issues_data |-> FALSE, linked_issues_data |-> << >> ]

EmptyMap == [ x \in {} |-> 0 ]
MapPut(m, k, r) == [ x \in DOMAIN m \cup {k} |-> IF x = k THEN r ELSE m[x] ]

Task(obj) ==
    [ key |-> KeyOf(obj), obj |-> obj, pc |-> "pending", found |-> << >>,
      remote_links_data |-> << >>, epic_children_data |-> << >>,
      related_to_queue |-> << >>, i |-> 1, exc |-> FALSE ]

TaskIds == 1 .. Len(tasks)
Running == { t \in TaskIds : tasks[t].pc \notin {"pending", "done"} }

\* Mutant: main never sees a future complete.
FutureNeverDone(t) == FALSE

\* future_obj.done()
FutureDone(t) == tasks[t].pc = "done"

SetTask(t, r) == tasks' = [tasks EXCEPT ![t] = r]

\* Mutant: a permit is never given back.
KeepPermit(pool) == UNCHANGED permits

\* threading.Semaphore
CanAcquire(pool) == permits[pool] > 0
Acquire(pool) == permits' = [permits EXCEPT ![pool] = @ - 1]
Release(pool) == permits' = [permits EXCEPT ![pool] = @ + 1]

PoolSize ==
    [ jira |-> MAX_CONCURRENT_JIRA_CALLS, gdrive |-> MAX_CONCURRENT_GDRIVE_CALLS,
      confluence |-> CONFLUENCE_MAX_CONCURRENT_CALLS, base |-> BASE_CLIENT_MAX_CONCURRENT_CALLS ]
Pools == DOMAIN PoolSize

\* Mutant: the reservation test forgets the submitted set.
UnseenInMapOnly(k) == k \notin DOMAIN master_issues_map

\* The worker's test before it reserves a discovered key.
Unseen(k) == k \notin DOMAIN master_issues_map /\ k \notin keys_submitted_to_executor_set

\* Mutant: main's double check consults the submitted set as well.
AlreadyHandledOrSubmitted(k) ==
    \/ k \in DOMAIN master_issues_map
    \/ k \in DOMAIN futures
    \/ k \in keys_submitted_to_executor_set

\* Mutant: main's double check consults the result map alone.
AlreadyHandledInMapOnly(k) == k \in DOMAIN master_issues_map

\* Main's test before it submits a dequeued issue.
AlreadyHandled(k) == k \in DOMAIN master_issues_map \/ k \in DOMAIN futures

\* Mutant: the break looks at the queue alone.
ExitOnEmptyQueue(active, q) == q = << >>

\* Main's two loop tests.
LoopCondition(active, q) == active \/ q # << >>
ExitCondition(active, q) == ~active /\ q = << >>

Bump(f, ks) == [ k \in DOMAIN f |-> f[k] + Cardinality({ i \in DOMAIN ks : ks[i] = k }) ]

\* ------------------------------------------------------------ remote call sites

\* Every place that performs a remote call, the service it calls and the
\* semaphore it holds meanwhile ("none": the call is made without one).
CallSites ==
    [ fetch_jira_issue |-> [service |-> "jira", pool |-> "jira"],
      search_jira_with_jql |-> [service |-> "jira", pool |-> "jira"],
      fetch_remote_links |-> [service |-> "jira", pool |-> "jira"],
      fetch_google_drive_file_metadata |-> [service |-> "gdrive", pool |-> "gdrive"],
      download_google_file_content |-> [service |-> "gdrive", pool |-> "gdrive"],
      list_folder |-> [service |-> "gdrive", pool |-> "none"],
      fetch_page_content |-> [service |-> "confluence", pool |-> "confluence"],
      fetch_child_pages |-> [service |-> "confluence", pool |-> "confluence"],
      make_request |-> [service |-> "base", pool |-> "base"] ]
Sites == DOMAIN CallSites

\* How a remote call can end: it returns, it leaves the try block early (a
\* break or return inside it), or it raises.
Outcomes == { "returned", "early_exit", "http_error", "network_error", "exception" }

\* Mutant: the release sits at the end of the try block, not in a finally.
ReleasedUnlessRaised(site, outcome) ==
    IF CallSites[site].pool = "none" \/ outcome = "exception" THEN 0 ELSE 1

\* The permits the "finally" of a call site gives back when the call ends.
ReleasedOn(site, outcome) == IF CallSites[site].pool = "none" THEN 0 ELSE 1

RECURSIVE SumOver(_, _)
SumOver(f, S) ==
    IF S = {} THEN 0
    ELSE LET x == CHOOSE y \in S : TRUE IN f[x] + SumOver(f, S \ {x})

InFlight(service) == SumOver(calls, { s \in Sites : CallSites[s].service = service })
Held(pool) == SumOver(calls, { s \in Sites : CallSites[s].pool = pool })

\* ------------------------------------------------------------ Init

\* The wiki pages and the drive items of the remote services.
RemoteIds == { "P1", "P2", "P3", "F1", "F2", "D1" }

\* No fetcher call is being followed.
IdlePager ==
    [ fetcher |-> "none", keys |-> << >>, server |-> << >>, fail_at |-> 0, outcome |-> "ok",
      start |-> 0, all |-> << >>, requests |-> << >>, status |-> "idle", failed |-> FALSE,
      ret |-> [ kind |-> "none", items |-> << >> ] ]

\* No export file has been written.
NoOutput == [ saved |-> FALSE, processed_issues_data |-> EmptyMap ]

\* No extraction is being followed.
NoExtraction ==
    [ fn |-> "none", shape |-> "none", id |-> "", tail |-> << >>, url |-> << >>,
      status |-> "idle",
      ret |-> NoId ]

\* No recursive fetch is being followed.
NoWalk ==
    [ service |-> "none", children |-> [ id \in {} |-> << >> ], failing |-> {}, root |-> "",
      stack |-> << >>, visited |-> {}, fetched |-> << >>, status |-> "idle", ret |-> None ]

\* No thread is being followed.
NoThreads ==
    [ watched |-> "none", others |-> [ pc \in {} |-> 0 ], main |-> "none",
      queued |-> 0, created |-> 0 ]

InitEvery(scenarios, pagers, extractions, walks, pools) ==
    /\ sc \in scenarios
    /\ pager \in pagers
    /\ extraction \in extractions
    /\ walk \in walks
    /\ threads \in pools
    /\ mainpc = "seed"
    /\ cur = << >>
    /\ active_futures = TRUE
    /\ scanlist = << >>
    /\ completed_futures_this_round = {}
    /\ futures = EmptyMap
    /\ tasks = << >>
    /\ issues_processing_queue = << >>
    /\ master_issues_map = EmptyMap
    /\ keys_submitted_to_executor_set = {}
    /\ map_and_queue_lock = Free
    /\ globally_processed_issue_keys = {}
    /\ permits = PoolSize
    /\ calls = [ s \in Sites |-> 0 ]
    /\ lastOutcome = "none"
    /\ contentFetches = [ k \in Keys |-> 0 ]
    /\ workerPuts = [ k \in Keys |-> 0 ]
    /\ callFailed = FALSE
    /\ output = NoOutput
    /\ remoteFetches = [ id \in RemoteIds |-> 0 ]

InitAll(scenarios, pagers, extractions, walks) ==
    InitEvery(scenarios, pagers, extractions, walks, {NoThreads})
InitOf(scenarios, pagers, extractions) == InitAll(scenarios, pagers, extractions, {NoWalk})
InitWith(scenarios, pagers) == InitOf(scenarios, pagers, {NoExtraction})

Init == InitWith(Scenarios \cup LinkGraphs, {IdlePager})

\* ------------------------------------------------------------ worker_process_issue

\* The executor runs a submitted task when one of its MAX_WORKERS threads is free.
StartTask(t) ==
    /\ tasks[t].pc = "pending"
    /\ Cardinality(Running) < MAX_WORKERS
    /\ SetTask(t, [tasks[t] EXCEPT !.pc = "rl_acq"])
    /\ UNCHANGED << sc, mainVars, issues_processing_queue, master_issues_map,
                    keys_submitted_to_executor_set, map_and_queue_lock,
                    globally_processed_issue_keys, permits, sideVars, histVars >>

\* process_issue_fully: expanded remote links of the issue JSON are used as
\* they are; without them the links are requested with fetch_remote_links,
\* unless the key was processed before and skip_remote is set.
RemoteLinksAcquire(t) ==
    LET k == tasks[t].key
        expanded_remote_links == IF k \in sc.expanded THEN sc.remotelinks[k] ELSE << >>
    IN
    /\ tasks[t].pc = "rl_acq"
    /\ IF expanded_remote_links # << >>
       THEN /\ SetTask(t, [tasks[t] EXCEPT
                   !.pc = "links",
                   !.remote_links_data =
                       [ i \in DOMAIN expanded_remote_links |->
                             LinkData(expanded_remote_links[i]) ]])
            /\ UNCHANGED permits
       ELSE IF k \notin globally_processed_issue_keys \/ ~sc.skip_remote
       THEN /\ CanAcquire("jira")
            /\ Acquire("jira")
            /\ SetTask(t, [tasks[t] EXCEPT !.pc = "rl_call"])
       ELSE /\ SetTask(t, [tasks[t] EXCEPT !.pc = "epic_acq"])
            /\ UNCHANGED permits
    /\ UNCHANGED << sc, mainVars, issues_processing_queue, master_issues_map,
                    keys_submitted_to_executor_set, map_and_queue_lock,
                    globally_processed_issue_keys, sideVars, histVars >>

\* fetch_remote_links returns; "if remote_links:" stores the list in the issue
\* JSON and enters the link loop.
RemoteLinksReturn(t) ==
    LET k == tasks[t].key
        r == fetch_remote_links(sc.rl_outcome[k], sc.remotelinks[k])
    IN
    /\ tasks[t].pc = "rl_call"
    /\ Release("jira")
    /\ IF r.raised
       THEN SetTask(t, [tasks[t] EXCEPT !.pc = "exc_lock", !.exc = TRUE])
       ELSE SetTask(t, [tasks[t] EXCEPT
                !.pc = IF r.links # << >> THEN "links" ELSE "epic_acq",
                !.remote_links_data = [ i \in DOMAIN r.links |-> LinkData(r.links[i]) ]])
    /\ callFailed' = (callFailed \/ sc.rl_outcome[k] \in { "http_error", "network_error" })
    /\ UNCHANGED << sc, mainVars, issues_processing_queue, master_issues_map,
                    keys_submitted_to_executor_set, map_and_queue_lock,
                    globally_processed_issue_keys, sideVars, contentFetches, workerPuts,
                    remoteFetches >>

\* process_issue_fully: the loop over the remote links, each wiki or drive
\* link fetched recursively with a visited set of its own.
ProcessLinks(t) ==
    /\ tasks[t].pc = "links"
    /\ LET r == LinkLoopResult[tasks[t].remote_links_data][sc.skip_remote]
       IN  /\ SetTask(t, [tasks[t] EXCEPT !.pc = "epic_acq",
                                          !.remote_links_data = r.remote_links_data])
           /\ remoteFetches' = Bump(remoteFetches, r.fetched)
    /\ UNCHANGED << sc, mainVars, issues_processing_queue, master_issues_map,
                    keys_submitted_to_executor_set, map_and_queue_lock,
                    globally_processed_issue_keys, permits, sideVars, contentFetches,
                    workerPuts, callFailed >>

\* process_issue_fully: an Epic seen for the first time fetches its children.
EpicAcquire(t) ==
    /\ tasks[t].pc = "epic_acq"
    /\ IF IsEpic(tasks[t].key) /\ tasks[t].key \notin globally_processed_issue_keys
       THEN /\ CanAcquire("jira")
            /\ Acquire("jira")
            /\ SetTask(t, [tasks[t] EXCEPT !.pc = "epic_call"])
            /\ UNCHANGED globally_processed_issue_keys
       ELSE /\ globally_processed_issue_keys' = globally_processed_issue_keys \cup {tasks[t].key}
            /\ SetTask(t, [tasks[t] EXCEPT !.pc = "ins_lock"])
            /\ UNCHANGED permits
    /\ UNCHANGED << sc, mainVars, issues_processing_queue, master_issues_map,
                    keys_submitted_to_executor_set, map_and_queue_lock,
                    sideVars, histVars >>

EpicReturn(t) ==
    LET children == search_jira_with_jql(EpicChildKeys(tasks[t].key)) IN
    /\ tasks[t].pc = "epic_call"
    /\ Release("jira")
    /\ SetTask(t, [tasks[t] EXCEPT !.pc = "ins_lock", !.epic_children_data = children])
    /\ globally_processed_issue_keys' = globally_processed_issue_keys \cup {tasks[t].key}
    /\ contentFetches' = Bump(contentFetches, children)
    /\ callFailed' = (callFailed \/ SearchFails(EpicChildKeys(tasks[t].key)))
    /\ UNCHANGED << sc, mainVars, issues_processing_queue, master_issues_map,
                    keys_submitted_to_executor_set, map_and_queue_lock,
                    sideVars, workerPuts, remoteFetches >>

\* "with map_and_queue_lock:" is entered by every critical section of the worker.
LockPcs ==
    { "ins_lock", "subinit_lock", "sub_lock", "lnkinit_lock", "lnk_lock", "epc_lock", "exc_lock" }
BodyOf(pc) ==
    CASE pc = "ins_lock" -> "ins"
      [] pc = "subinit_lock" -> "subinit"
      [] pc = "sub_lock" -> "sub_chk"
      [] pc = "lnkinit_lock" -> "lnkinit"
      [] pc = "lnk_lock" -> "lnk_chk"
      [] pc = "epc_lock" -> "epc_chk"
      [] pc = "exc_lock" -> "exc"

\* Mutant: the block is entered without the lock.
WorkerNoLock(t) ==
    /\ tasks[t].pc \in { "ins_lock", "subinit_lock", "sub_lock", "lnkinit_lock", "lnk_lock",
                         "epc_lock", "exc_lock" }
    /\ SetTask(t, [tasks[t] EXCEPT
           !.pc = CASE @ = "ins_lock" -> "ins" [] @ = "subinit_lock" -> "subinit"
                    [] @ = "sub_lock" -> "sub_chk" [] @ = "lnkinit_lock" -> "lnkinit"
                    [] @ = "lnk_lock" -> "lnk_chk" [] @ = "epc_lock" -> "epc_chk"
                    [] @ = "exc_lock" -> "exc"])
    /\ UNCHANGED << sc, mainVars, issues_processing_queue, master_issues_map,
                    keys_submitted_to_executor_set, globally_processed_issue_keys,
                    map_and_queue_lock, permits, sideVars, histVars >>

WorkerLock(t) ==
    /\ tasks[t].pc \in LockPcs
    /\ map_and_queue_lock = Free
    /\ map_and_queue_lock' = t
    /\ SetTask(t, [tasks[t] EXCEPT !.pc = BodyOf(tasks[t].pc)])
    /\ UNCHANGED << sc, mainVars, issues_processing_queue, master_issues_map,
                    keys_submitted_to_executor_set, globally_processed_issue_keys,
                    permits, sideVars, histVars >>

\* master_issues_map[current_issue_key] = issue_obj_raw
SuccessInsert(m, k, obj) == MapPut(m, k, FetchedRecord(obj))

\* Mutant: the insert does not leave its "with" block before the worker goes on.
InsertRecordKeepingLock(t) ==
    /\ tasks[t].pc = "ins"
    /\ map_and_queue_lock = t
    /\ master_issues_map' =
           [ SuccessInsert(master_issues_map, tasks[t].key, tasks[t].obj)
               EXCEPT ![tasks[t].key].remote_links_data = tasks[t].remote_links_data ]
    /\ SetTask(t, [tasks[t] EXCEPT !.pc = "sub_acq"])
    /\ UNCHANGED << sc, mainVars, issues_processing_queue, keys_submitted_to_executor_set,
                    map_and_queue_lock, globally_processed_issue_keys, permits, sideVars,
                    histVars >>

InsertRecord(t) ==
    /\ tasks[t].pc = "ins"
    /\ map_and_queue_lock = t
    /\ master_issues_map' =
           [ SuccessInsert(master_issues_map, tasks[t].key, tasks[t].obj)
               EXCEPT ![tasks[t].key].remote_links_data = tasks[t].remote_links_data ]
    /\ map_and_queue_lock' = Free
    /\ SetTask(t, [tasks[t] EXCEPT !.pc = "sub_acq"])
    /\ UNCHANGED << sc, mainVars, issues_processing_queue, keys_submitted_to_executor_set,
                    globally_processed_issue_keys, permits, sideVars, histVars >>

\* Mutant: the link step resolves the sub-task keys once more.
BatchKeysSubtasksOnly(kind, k) == SubtaskKeys(k)

\* The two batched discovery steps share their shape: kind is "sub" or "lnk".
BatchKeys(kind, k) == IF kind = "sub" THEN SubtaskKeys(k) ELSE LinkedKeys(k)
\* After the links: "if 'epic_children_data' in issue_obj_raw", then the puts.
NextStage(t, kind) ==
    IF kind = "sub" THEN "lnk_acq"
    ELSE IF tasks[t].epic_children_data # << >> THEN "epc_lock" ELSE "put"

\* fetch_subtasks / fetch_linked_issues: return [] without a call when the
\* issue names no keys, else issue the batched query.
BatchAcquire(t, kind) ==
    /\ tasks[t].pc = kind \o "_acq"
    /\ IF BatchKeys(kind, tasks[t].key) = << >>
       THEN /\ SetTask(t, [tasks[t] EXCEPT !.pc = NextStage(t, kind), !.found = << >>])
            /\ UNCHANGED permits
       ELSE /\ CanAcquire("jira")
            /\ Acquire("jira")
            /\ SetTask(t, [tasks[t] EXCEPT !.pc = kind \o "_call"])
    /\ UNCHANGED << sc, mainVars, issues_processing_queue, master_issues_map,
                    keys_submitted_to_executor_set, map_and_queue_lock,
                    globally_processed_issue_keys, sideVars, histVars >>

BatchReturn(t, kind) ==
    LET found == search_jira_with_jql(BatchKeys(kind, tasks[t].key)) IN
    /\ tasks[t].pc = kind \o "_call"
    /\ Release("jira")
    /\ SetTask(t, [tasks[t] EXCEPT !.found = found, !.i = 1,
                       !.pc = IF found = << >> THEN NextStage(t, kind) ELSE kind \o "init_lock"])
    /\ contentFetches' = Bump(contentFetches, found)
    /\ callFailed' = (callFailed \/ SearchFails(BatchKeys(kind, tasks[t].key)))
    /\ UNCHANGED << sc, mainVars, issues_processing_queue, master_issues_map,
                    keys_submitted_to_executor_set, map_and_queue_lock,
                    globally_processed_issue_keys, sideVars, workerPuts, remoteFetches >>

\* if "subtasks_data" not in master_issues_map[key]: master_issues_map[key]["subtasks_data"] = []
InitList(rec, kind) ==
    IF kind = "sub" THEN [rec EXCEPT !.has_subtasks_data = TRUE]
    ELSE [rec EXCEPT !.has_linked_issues_data = TRUE]
AppendSummary(rec, kind, k) ==
    IF kind = "sub" THEN [rec EXCEPT !.subtasks_data = Append(@, k)]
    ELSE [rec EXCEPT !.linked_issues_data = Append(@, k)]

BatchInitList(t, kind) ==
    /\ tasks[t].pc = kind \o "init"
    /\ map_and_queue_lock = t
    /\ master_issues_map' =
           [master_issues_map EXCEPT ![tasks[t].key] = InitList(@, kind)]
    /\ map_and_queue_lock' = Free
    /\ SetTask(t, [tasks[t] EXCEPT !.pc = kind \o "_lock"])
    /\ UNCHANGED << sc, mainVars, issues_processing_queue, keys_submitted_to_executor_set,
                    globally_processed_issue_keys, permits, sideVars, histVars >>

\* One pass of "for sub_summary in subtask_summaries" (and of the link loop):
\* record the summary on the parent, then check-and-reserve the key.
BatchCheck(t, kind) ==
    LET k == tasks[t].found[tasks[t].i]
        last == tasks[t].i = Len(tasks[t].found)
        new == Unseen(k)
    IN
    /\ tasks[t].pc = kind \o "_chk"
    /\ map_and_queue_lock = t
    /\ master_issues_map' =
           [master_issues_map EXCEPT ![tasks[t].key] = AppendSummary(@, kind, k)]
    /\ keys_submitted_to_executor_set' =
           IF new THEN keys_submitted_to_executor_set \cup {k}
           ELSE keys_submitted_to_executor_set
    /\ map_and_queue_lock' = Free
    /\ SetTask(t, [tasks[t] EXCEPT
           !.related_to_queue =
               IF new THEN Append(@, IssueObj(k, tasks[t].key, kind)) ELSE @,
           !.i = IF last THEN 1 ELSE @ + 1,
           !.pc = IF last THEN NextStage(t, kind) ELSE kind \o "_lock"])
    /\ UNCHANGED << sc, mainVars, issues_processing_queue, globally_processed_issue_keys,
                    permits, sideVars, histVars >>

\* One pass of "for child_summary in issue_obj_raw['epic_children_data']".
EpicChildCheck(t) ==
    LET k == tasks[t].epic_children_data[tasks[t].i]
        last == tasks[t].i = Len(tasks[t].epic_children_data)
        new == Unseen(k)
    IN
    /\ tasks[t].pc = "epc_chk"
    /\ map_and_queue_lock = t
    /\ keys_submitted_to_executor_set' =
           IF new THEN keys_submitted_to_executor_set \cup {k}
           ELSE keys_submitted_to_executor_set
    /\ map_and_queue_lock' = Free
    /\ SetTask(t, [tasks[t] EXCEPT
           !.related_to_queue =
               IF new THEN Append(@, IssueObj(k, tasks[t].key, "epic")) ELSE @,
           !.i = IF last THEN 1 ELSE @ + 1,
           !.pc = IF last THEN "put" ELSE "epc_lock"])
    /\ UNCHANGED << sc, mainVars, issues_processing_queue, master_issues_map,
                    globally_processed_issue_keys, permits, sideVars, histVars >>

\* for item in related_to_queue: issues_processing_queue.put(item)
Put(t) ==
    LET item == tasks[t].related_to_queue[tasks[t].i] IN
    /\ tasks[t].pc = "put"
    /\ tasks[t].i <= Len(tasks[t].related_to_queue)
    /\ issues_processing_queue' = Append(issues_processing_queue, item)
    /\ workerPuts' = [workerPuts EXCEPT ![KeyOf(item)] = @ + 1]
    /\ SetTask(t, [tasks[t] EXCEPT !.i = @ + 1])
    /\ UNCHANGED << sc, mainVars, master_issues_map, keys_submitted_to_executor_set,
                    map_and_queue_lock, globally_processed_issue_keys, permits,
                    sideVars, contentFetches, callFailed,
                    remoteFetches >>

\* return current_issue_key, "success"
Return(t) ==
    /\ tasks[t].pc = "put"
    /\ tasks[t].i > Len(tasks[t].related_to_queue)
    /\ SetTask(t, [tasks[t] EXCEPT !.pc = "done"])
    /\ UNCHANGED << sc, mainVars, issues_processing_queue, master_issues_map,
                    keys_submitted_to_executor_set, map_and_queue_lock,
                    globally_processed_issue_keys, permits, sideVars, histVars >>

\* An exception raised anywhere inside the worker's try block: the "with" and
\* "finally" blocks on the way out release the lock and the permit.
CallPcs == { "rl_call", "epic_call", "sub_call", "lnk_call" }
HandlerPcs == { "exc_lock", "exc" }

Raise(t) ==
    /\ tasks[t].key \in sc.raisers
    /\ tasks[t].pc \notin {"pending", "done"} \cup HandlerPcs
    /\ ~tasks[t].exc
    /\ map_and_queue_lock' = IF map_and_queue_lock = t THEN Free ELSE map_and_queue_lock
    /\ permits' = IF tasks[t].pc \in CallPcs
                  THEN [permits EXCEPT !["jira"] = @ + 1] ELSE permits
    /\ SetTask(t, [tasks[t] EXCEPT !.pc = "exc_lock", !.exc = TRUE])
    /\ UNCHANGED << sc, mainVars, issues_processing_queue, master_issues_map,
                    keys_submitted_to_executor_set, globally_processed_issue_keys,
                    sideVars, histVars >>

\* Mutant: the handler leaves an existing entry as it is.
HandlerInsertIfAbsentOnly(m, k) ==
    IF k \notin DOMAIN m THEN MapPut(m, k, Placeholder(k, "worker_exception")) ELSE m

\* Mutant: the handler always stores its placeholder.
HandlerOverwrite(m, k) == MapPut(m, k, Placeholder(k, "worker_exception"))

\* The worker's "except Exception": a placeholder when the key has no entry,
\* else the error is written into the entry.
HandlerInsert(m, k) ==
    IF k \notin DOMAIN m
    THEN MapPut(m, k, Placeholder(k, "worker_exception"))
    ELSE [m EXCEPT ![k].status = "worker_exception_post_process_fully"]

ExceptionHandler(t) ==
    /\ tasks[t].pc = "exc"
    /\ map_and_queue_lock = t
    /\ master_issues_map' = HandlerInsert(master_issues_map, tasks[t].key)
    /\ map_and_queue_lock' = Free
    /\ SetTask(t, [tasks[t] EXCEPT !.pc = "done"])
    /\ UNCHANGED << sc, mainVars, issues_processing_queue, keys_submitted_to_executor_set,
                    globally_processed_issue_keys, permits, sideVars, histVars >>

WorkerStep(t) ==
    \/ StartTask(t)
    \/ RemoteLinksAcquire(t)
    \/ RemoteLinksReturn(t)
    \/ ProcessLinks(t)
    \/ EpicAcquire(t)
    \/ EpicReturn(t)
    \/ WorkerLock(t)
    \/ InsertRecord(t)
    \/ \E kind \in {"sub", "lnk"} :
          \/ BatchAcquire(t, kind)
          \/ BatchReturn(t, kind)
          \/ BatchInitList(t, kind)
          \/ BatchCheck(t, kind)
    \/ EpicChildCheck(t)
    \/ Put(t)
    \/ Return(t)
    \/ ExceptionHandler(t)

\* ------------------------------------------------------------ main

\* fetch_jira_issue: the issue, or None (here the empty list) on a request error.
fetch_jira_issue(k, fails) == IF fails THEN << >> ELSE << k >>

\* The entry query of main: the one issue of issue mode, or the result of the
\* seed search of jql / project mode.
initial_issues_to_process ==
    IF sc.mode = "issue"
    THEN fetch_jira_issue(sc.seeds[1], sc.seed_fetch_fails)
    ELSE SearchPages(sc.seeds, sc.seed_fetch_fails, 0, << >>)

\* The start of main: the entry query; "return" when it yields nothing, else
\* "Populate initial queue and submitted set".  No worker runs yet.
Seed ==
    LET initial == initial_issues_to_process IN
    /\ mainpc = "seed"
    /\ callFailed' = (callFailed \/ sc.seed_fetch_fails)
    /\ IF initial = << >>
       THEN /\ mainpc' = "returned_early"
            /\ UNCHANGED << issues_processing_queue, keys_submitted_to_executor_set,
                            contentFetches >>
       ELSE /\ issues_processing_queue' =
                   [ i \in DOMAIN initial |-> IssueObj(initial[i], "seed", ToString(i)) ]
            /\ keys_submitted_to_executor_set' = Range(initial)
            /\ contentFetches' = Bump(contentFetches, Dedup(initial))
            /\ mainpc' = "init_get"
    /\ UNCHANGED << sc, output, cur, active_futures, scanlist, completed_futures_this_round,
                    futures, tasks, master_issues_map, map_and_queue_lock,
                    globally_processed_issue_keys, permits, sideVars,
                    workerPuts, remoteFetches >>

\* "while not issues_processing_queue.empty(): get_nowait()" of the initial
\* submission (from = "init") and of the processing loop (from = "drain").
Dequeue(from) ==
    /\ mainpc = from \o "_get"
    /\ IF issues_processing_queue # << >>
       THEN /\ cur' = Head(issues_processing_queue)
            /\ issues_processing_queue' = Tail(issues_processing_queue)
            /\ mainpc' = from \o "_lock"
       ELSE /\ mainpc' = IF from = "init" THEN "loop_top" ELSE "exit_chk"
            /\ UNCHANGED << cur, issues_processing_queue >>
    /\ UNCHANGED << sc, output, active_futures, scanlist, completed_futures_this_round, futures,
                    tasks, master_issues_map, keys_submitted_to_executor_set,
                    map_and_queue_lock, globally_processed_issue_keys, permits,
                    sideVars, histVars >>

MainLock(from) ==
    /\ mainpc = from \o "_lock"
    /\ map_and_queue_lock = Free
    /\ map_and_queue_lock' = MainThread
    /\ mainpc' = from \o "_chk"
    /\ UNCHANGED << sc, output, cur, active_futures, scanlist, completed_futures_this_round,
                    futures, tasks, issues_processing_queue, master_issues_map,
                    keys_submitted_to_executor_set, globally_processed_issue_keys,
                    permits, sideVars, histVars >>

\* The double check under the lock, then executor.submit and futures[key] = future.
CheckAndSubmit(from) ==
    /\ mainpc = from \o "_chk"
    /\ map_and_queue_lock = MainThread
    /\ map_and_queue_lock' = Free
    /\ mainpc' = from \o "_get"
    /\ IF AlreadyHandled(KeyOf(cur))
       THEN UNCHANGED << tasks, futures, active_futures >>
       ELSE /\ Len(tasks) < MaxTasks
            /\ tasks' = Append(tasks, Task(cur))
            /\ futures' = MapPut(futures, KeyOf(cur), Len(tasks) + 1)
            /\ active_futures' = IF from = "drain" THEN TRUE ELSE active_futures
    /\ UNCHANGED << sc, output, cur, scanlist, completed_futures_this_round,
                    issues_processing_queue, master_issues_map,
                    keys_submitted_to_executor_set, globally_processed_issue_keys,
                    permits, sideVars, histVars >>

\* "while active_futures or not issues_processing_queue.empty():" and the
\* snapshot list(futures.items()), in insertion order.
RECURSIVE SortedSeq(_)
SortedSeq(S) ==
    IF S = {} THEN << >>
    ELSE LET m == CHOOSE x \in S : \A y \in S : x <= y
         IN  << m >> \o SortedSeq(S \ {m})

FutureItems ==
    LET ids == SortedSeq({ futures[k] : k \in DOMAIN futures })
    IN  [ i \in DOMAIN ids |-> tasks[ids[i]].key ]

LoopTop ==
    /\ mainpc = "loop_top"
    /\ IF LoopCondition(active_futures, issues_processing_queue)
       THEN /\ active_futures' = FALSE
            /\ completed_futures_this_round' = {}
            /\ scanlist' = FutureItems
            /\ mainpc' = "scan"
       ELSE /\ mainpc' = "done"
            /\ UNCHANGED << active_futures, completed_futures_this_round, scanlist >>
    /\ UNCHANGED << sc, output, cur, futures, tasks, issues_processing_queue, master_issues_map,
                    keys_submitted_to_executor_set, map_and_queue_lock,
                    globally_processed_issue_keys, permits, sideVars, histVars >>

\* One pass of "for key, future_obj in list(futures.items())".  The worker
\* catches every exception itself, so future_obj.result() returns.
ScanFuture ==
    /\ mainpc = "scan"
    /\ scanlist # << >>
    /\ IF FutureDone(futures[Head(scanlist)])
       THEN /\ completed_futures_this_round' = completed_futures_this_round \cup {Head(scanlist)}
            /\ UNCHANGED active_futures
       ELSE /\ active_futures' = TRUE
            /\ UNCHANGED completed_futures_this_round
    /\ scanlist' = Tail(scanlist)
    /\ UNCHANGED << sc, output, mainpc, cur, futures, tasks, issues_processing_queue,
                    master_issues_map, keys_submitted_to_executor_set, map_and_queue_lock,
                    globally_processed_issue_keys, permits, sideVars, histVars >>

\* "for key in completed_futures_this_round: del futures[key]"
DeleteCompleted ==
    /\ mainpc = "scan"
    /\ scanlist = << >>
    /\ futures' = [ k \in DOMAIN futures \ completed_futures_this_round |-> futures[k] ]
    /\ mainpc' = "drain_get"
    /\ UNCHANGED << sc, output, cur, active_futures, scanlist, completed_futures_this_round,
                    tasks, issues_processing_queue, master_issues_map,
                    keys_submitted_to_executor_set, map_and_queue_lock,
                    globally_processed_issue_keys, permits, sideVars, histVars >>

\* "if not active_futures and issues_processing_queue.empty(): break", else the
\* short sleep and the next round.
ExitCheck ==
    /\ mainpc = "exit_chk"
    /\ mainpc' = IF ExitCondition(active_futures, issues_processing_queue)
                 THEN "done" ELSE "loop_top"
    /\ UNCHANGED << sc, output, cur, active_futures, scanlist, completed_futures_this_round,
                    futures, tasks, issues_processing_queue, master_issues_map,
                    keys_submitted_to_executor_set, map_and_queue_lock,
                    globally_processed_issue_keys, permits, sideVars, histVars >>

\* After the executor block: all_data["processed_issues_data"] =
\* list(master_issues_map.values()) and save_to_json.
SaveOutput ==
    /\ mainpc = "done"
    /\ output' = [ saved |-> TRUE, processed_issues_data |-> master_issues_map ]
    /\ mainpc' = "saved"
    /\ UNCHANGED << sc, cur, active_futures, scanlist, completed_futures_this_round,
                    futures, tasks, issues_processing_queue, master_issues_map,
                    keys_submitted_to_executor_set, map_and_queue_lock,
                    globally_processed_issue_keys, permits, sideVars, histVars >>

MainStep ==
    \/ Seed
    \/ SaveOutput
    \/ \E from \in {"init", "drain"} :
          \/ Dequeue(from)
          \/ MainLock(from)
          \/ CheckAndSubmit(from)
    \/ LoopTop
    \/ ScanFuture
    \/ DeleteCompleted
    \/ ExitCheck

Next ==
    \/ MainStep
    \/ \E t \in TaskIds : StartTask(t)
    \/ \E t \in TaskIds : RemoteLinksAcquire(t)
    \/ \E t \in TaskIds : RemoteLinksReturn(t)
    \/ \E t \in TaskIds : ProcessLinks(t)
    \/ \E t \in TaskIds : EpicAcquire(t)
    \/ \E t \in TaskIds : EpicReturn(t)
    \/ \E t \in TaskIds : WorkerLock(t)
    \/ \E t \in TaskIds : InsertRecord(t)
    \/ \E t \in TaskIds, kind \in {"sub", "lnk"} : BatchAcquire(t, kind)
    \/ \E t \in TaskIds, kind \in {"sub", "lnk"} : BatchReturn(t, kind)
    \/ \E t \in TaskIds, kind \in {"sub", "lnk"} : BatchInitList(t, kind)
    \/ \E t \in TaskIds, kind \in {"sub", "lnk"} : BatchCheck(t, kind)
    \/ \E t \in TaskIds : EpicChildCheck(t)
    \/ \E t \in TaskIds : Put(t)
    \/ \E t \in TaskIds : Return(t)
    \/ \E t \in TaskIds : ExceptionHandler(t)
    \/ \E t \in TaskIds : Raise(t)

Spec == Init /\ [][Next]_vars

\* The scheduler keeps running main and keeps running some worker that can
\* take a step; exceptions are not owed.
FairSpec ==
    /\ Init
    /\ [][Next]_vars
    /\ WF_vars(MainStep)
    /\ WF_vars(\E t \in TaskIds : WorkerStep(t))

\* The runs of main from its entry query on, failing entry queries included.
EntryInit == InitWith(Scenarios \cup EntryScenarios, {IdlePager})
EntrySpec == EntryInit /\ [][Next]_vars

\* ------------------------------------------------------------ the permit pools

crawlVars == << sc, mainVars, tasks, issues_processing_queue, master_issues_map,
                keys_submitted_to_executor_set, map_and_queue_lock,
                globally_processed_issue_keys, histVars >>

\* A thread enters a call site: semaphore.acquire() where the site has one,
\* then the request is on its way.  Each of the MAX_WORKERS threads makes one
\* call at a time.
BeginCall(site) ==
    /\ SumOver(calls, Sites) < MAX_WORKERS
    /\ IF CallSites[site].pool = "none"
       THEN UNCHANGED permits
       ELSE CanAcquire(CallSites[site].pool) /\ Acquire(CallSites[site].pool)
    /\ calls' = [calls EXCEPT ![site] = @ + 1]
    /\ UNCHANGED << crawlVars, lastOutcome, pager, extraction, walk, threads >>

\* The call ends with some outcome and the site's finally block runs.
EndCall(site, outcome) ==
    /\ calls[site] > 0
    /\ calls' = [calls EXCEPT ![site] = @ - 1]
    /\ permits' = IF CallSites[site].pool = "none" THEN permits
                  ELSE [permits EXCEPT ![CallSites[site].pool] = @ + ReleasedOn(site, outcome)]
    /\ lastOutcome' = outcome
    /\ UNCHANGED << crawlVars, pager, extraction, walk, threads >>

PermitInit == Init /\ sc.name = "chain"

PermitNext ==
    \/ \E site \in Sites : BeginCall(site)
    \/ \E site \in Sites, outcome \in Outcomes : EndCall(site, outcome)

PermitSpec == PermitInit /\ [][PermitNext]_vars

\* ------------------------------------------------------------ the fetcher functions

\* One call of a fetcher function is followed request by request: the items
\* the remote holds for it (server), the request that fails (fail_at, 0 for
\* none), the loop's variables start and all, the requests issued so far and
\* what the call returned.
Items(n) == [ i \in 1 .. n |-> i ]
ServerSizes ==
    { 0, 1, fetch_child_pages_limit - 1, fetch_child_pages_limit, fetch_child_pages_limit + 1,
      2 * fetch_child_pages_limit, MaxItems }

PagedFetchers == { "fetch_child_pages", "search_jira_with_jql", "paginated_request" }
BatchFetchers == { "fetch_subtasks", "fetch_linked_issues" }
SearchFetchers == { "search_jira_with_jql" } \cup BatchFetchers

FetcherCalls ==
    { [IdlePager EXCEPT !.fetcher = f, !.server = Items(n), !.fail_at = a, !.status = "running"] :
          f \in PagedFetchers \cup {"list_folder"}, n \in ServerSizes, a \in 0 .. MaxFailAt }
    \cup
    { [IdlePager EXCEPT !.fetcher = "fetch_subtasks", !.keys = Items(n), !.fail_at = a,
                        !.status = "called"] :
          n \in ServerSizes, a \in 0 .. MaxFailAt }
    \cup
    { [IdlePager EXCEPT !.fetcher = "fetch_linked_issues",
                        !.keys = Items(n) \o (IF n > 0 /\ d = 1 THEN << 1 >> ELSE << >>),
                        !.fail_at = a,
                        !.status = "called"] :
          n \in ServerSizes, d \in 0 .. 1, a \in 0 .. MaxFailAt }
    \cup
    { [IdlePager EXCEPT !.fetcher = "fetch_remote_links", !.server = Items(n), !.outcome = o,
                        !.status = "running"] :
          n \in { 0, 1 }, o \in { "ok", "404", "http_error", "network_error" } }

\* The request being issued fails with a RequestException.
RequestFails == pager.fail_at = Len(pager.requests) + 1
Request(got, ok) == [ start |-> pager.start, got |-> got, ok |-> ok ]
List(items) == [ kind |-> "list", items |-> items ]

\* Mutant: the child-page loop ends only at an empty page.
ChildPagesDoneOnEmptyOnly(results, limit) == FALSE

\* fetch_child_pages: "if len(results) < limit: break"
ChildPagesDone(results, limit) == Len(results) < limit

\* ConfluenceClient.fetch_child_pages: one pass of its "while True".
FetchChildPagesRequest ==
    LET results == ServerPage(pager.server, pager.start, fetch_child_pages_limit) IN
    /\ pager.fetcher = "fetch_child_pages"
    /\ pager.status = "running"
    /\ pager' =
          IF RequestFails
          THEN [pager EXCEPT !.requests = Append(@, Request(0, FALSE)), !.failed = TRUE,
                             !.status = "returned", !.ret = List(pager.all)]
          ELSE IF results = << >>
          THEN [pager EXCEPT !.requests = Append(@, Request(0, TRUE)),
                             !.status = "returned", !.ret = List(pager.all)]
          ELSE IF ChildPagesDone(results, fetch_child_pages_limit)
          THEN [pager EXCEPT !.requests = Append(@, Request(Len(results), TRUE)),
                             !.all = @ \o results,
                             !.status = "returned", !.ret = List(pager.all \o results)]
          ELSE [pager EXCEPT !.requests = Append(@, Request(Len(results), TRUE)),
                             !.all = @ \o results,
                             !.start = @ + fetch_child_pages_limit]
    /\ UNCHANGED << crawlVars, permits, calls, lastOutcome, extraction, walk, threads >>

\* search_jira_with_jql: one pass of its "while True".
SearchRequest ==
    LET current_page_issues == ServerPage(pager.server, pager.start, MAX_RESULTS_PER_JIRA_PAGE) IN
    /\ pager.fetcher \in SearchFetchers
    /\ pager.status = "running"
    /\ pager' =
          IF RequestFails
          THEN [pager EXCEPT !.requests = Append(@, Request(0, FALSE)), !.failed = TRUE,
                             !.status = "returned", !.ret = List(pager.all)]
          ELSE IF SearchDone(current_page_issues, pager.start, Len(pager.server))
          THEN [pager EXCEPT !.requests = Append(@, Request(Len(current_page_issues), TRUE)),
                             !.all = @ \o current_page_issues,
                             !.status = "returned",
                             !.ret = List(pager.all \o current_page_issues)]
          ELSE [pager EXCEPT !.requests = Append(@, Request(Len(current_page_issues), TRUE)),
                             !.all = @ \o current_page_issues,
                             !.start = @ + Len(current_page_issues)]
    /\ UNCHANGED << crawlVars, permits, calls, lastOutcome, extraction, walk, threads >>

\* BaseClient._paginated_request: one pass of its "while True"; _make_request
\* re-raises a RequestException, which leaves the loop and the function.
PaginatedRequest ==
    LET results == ServerPage(pager.server, pager.start, paginated_request_limit) IN
    /\ pager.fetcher = "paginated_request"
    /\ pager.status = "running"
    /\ pager' =
          IF RequestFails
          THEN [pager EXCEPT !.requests = Append(@, Request(0, FALSE)), !.failed = TRUE,
                             !.status = "raised",
                             !.ret = [ kind |-> "RequestException", items |-> << >> ]]
          ELSE IF results = << >>
          THEN [pager EXCEPT !.requests = Append(@, Request(0, TRUE)),
                             !.status = "returned", !.ret = List(pager.all)]
          ELSE IF Len(results) < paginated_request_limit
          THEN [pager EXCEPT !.requests = Append(@, Request(Len(results), TRUE)),
                             !.all = @ \o results,
                             !.status = "returned", !.ret = List(pager.all \o results)]
          ELSE [pager EXCEPT !.requests = Append(@, Request(Len(results), TRUE)),
                             !.all = @ \o results,
                             !.start = @ + paginated_request_limit]
    /\ UNCHANGED << crawlVars, permits, calls, lastOutcome, extraction, walk, threads >>

\* fetch_google_drive_item_recursive: the listing of a folder, one
\* files().list request with pageSize and without a page token; an error
\* sets fetched_data["error"] and the status error_listing_folder.
ListFolder ==
    LET children == ServerPage(pager.server, 0, pageSize) IN
    /\ pager.fetcher = "list_folder"
    /\ pager.status = "running"
    /\ pager' =
          IF RequestFails
          THEN [pager EXCEPT !.requests = Append(@, Request(0, FALSE)), !.failed = TRUE,
                             !.status = "returned",
                             !.ret = [ kind |-> "error_listing_folder", items |-> << >> ]]
          ELSE [pager EXCEPT !.requests = Append(@, Request(Len(children), TRUE)),
                             !.all = children,
                             !.status = "returned", !.ret = List(children)]
    /\ UNCHANGED << crawlVars, permits, calls, lastOutcome, extraction, walk, threads >>

\* Mutant: the query is issued also when the issue names no keys.
BatchQueryWithoutKeys ==
    /\ pager.fetcher \in BatchFetchers
    /\ pager.status = "called"
    /\ pager' = [pager EXCEPT !.status = "running", !.server = Dedup(pager.keys)]
    /\ UNCHANGED << crawlVars, permits, calls, lastOutcome, extraction, walk, threads >>

\* fetch_subtasks / fetch_linked_issues up to their query: [] without a
\* request when the issue names no keys, else one "issueKey in (...)" query,
\* which matches the distinct keys.
BatchQuery ==
    /\ pager.fetcher \in BatchFetchers
    /\ pager.status = "called"
    /\ pager' =
          IF pager.keys = << >>
          THEN [pager EXCEPT !.status = "returned", !.ret = List(<< >>)]
          ELSE [pager EXCEPT !.status = "running", !.server = Dedup(pager.keys)]
    /\ UNCHANGED << crawlVars, permits, calls, lastOutcome, extraction, walk, threads >>

\* fetch_remote_links: its one request.
RemoteLinksRequest ==
    LET r == fetch_remote_links(pager.outcome, pager.server) IN
    /\ pager.fetcher = "fetch_remote_links"
    /\ pager.status = "running"
    /\ pager' =
          [pager EXCEPT !.requests = Append(@, Request(Len(r.links), pager.outcome = "ok")),
                        !.failed = pager.outcome \in { "http_error", "network_error" },
                        !.status = IF r.raised THEN "raised" ELSE "returned",
                        !.ret = IF r.raised
                                THEN [ kind |-> "RequestException", items |-> << >> ]
                                ELSE List(r.links)]
    /\ UNCHANGED << crawlVars, permits, calls, lastOutcome, extraction, walk, threads >>

FetcherInit == InitWith({ s \in Scenarios : s.name = "chain" }, FetcherCalls)

FetcherNext ==
    \/ FetchChildPagesRequest
    \/ SearchRequest
    \/ PaginatedRequest
    \/ ListFolder
    \/ BatchQuery
    \/ RemoteLinksRequest

FetcherSpec == FetcherInit /\ [][FetcherNext]_vars

\* ------------------------------------------------------------ the id extractions

\* What follows the id in the URL.
PathTails == { << >>, << "/" >>, << "/", "view" >>, << "/", "edit", "?", "usp", "=", "sharing" >> }
QueryTails == { << >>, << "&", "usp", "=", "sharing" >> }
FolderTails == PathTails \cup { << "?", "usp", "=", "sharing" >> }
TailsOf(shape) ==
    CASE shape \in { "open_id", "page_id_param" } -> QueryTails
      [] shape \in { "folders", "u_folders", "file" } -> FolderTails
      [] OTHER -> PathTails
DriveIds == { "F1", "F2", "D1", "d", "file" }
PageIds == { "101", "102", "abc" }

ExtractCalls ==
    UNION { { [NoExtraction EXCEPT !.fn = "extract_google_drive_id", !.shape = shape,
                                   !.id = id, !.tail = tail,
                                   !.url = DriveUrl(shape, id) \o tail, !.status = "called"] :
                  id \in DriveIds, tail \in TailsOf(shape) } : shape \in DriveShapes }
    \cup
    UNION { { [NoExtraction EXCEPT !.fn = "extract_page_id_from_url", !.shape = shape,
                                   !.id = id, !.tail = tail,
                                   !.url = WikiUrl(shape, id) \o tail, !.status = "called"] :
                  id \in PageIds, tail \in TailsOf(shape) } : shape \in WikiShapes }

ExtractDriveId ==
    /\ extraction.fn = "extract_google_drive_id"
    /\ extraction.status = "called"
    /\ extraction' = [extraction EXCEPT !.status = "returned",
                                        !.ret = extract_google_drive_id(extraction.url)]
    /\ UNCHANGED << crawlVars, permits, calls, lastOutcome, pager, walk, threads >>

ExtractPageId ==
    /\ extraction.fn = "extract_page_id_from_url"
    /\ extraction.status = "called"
    /\ extraction' = [extraction EXCEPT !.status = "returned",
                                        !.ret = extract_page_id_from_url(extraction.url)]
    /\ UNCHANGED << crawlVars, permits, calls, lastOutcome, pager, walk, threads >>

ExtractInit == InitOf({ s \in Scenarios : s.name = "chain" }, {IdlePager}, ExtractCalls)
ExtractNext == ExtractDriveId \/ ExtractPageId
ExtractSpec == ExtractInit /\ [][ExtractNext]_vars

\* ------------------------------------------------------------ the recursive content fetch

\* fetch_content_recursive and fetch_google_drive_item_recursive followed call
\* by call on any hierarchy: each id's children as the remote lists them, the
\* ids whose content request fails, and the Python call stack (one frame per
\* call that is running its child loop).

\* The deepest nesting of calls that is followed.
MaxDepth == 5

WikiIds == << "P1", "P2", "P3", "P4" >>
DriveItemIds == << "F1", "F2", "D1", "D2" >>
Nth(ids, n) == ids[((n - 1) % Len(ids)) + 1]
\* The child lists tried for the n-th id: none, the next id, the one after it,
\* both, the root (an ancestor), the next id and the root, and the id itself.
ChildLists(ids, n) ==
    { << >>, << Nth(ids, n + 1) >>, << Nth(ids, n + 2) >>,
      << Nth(ids, n + 1), Nth(ids, n + 2) >>, << ids[1] >>,
      << Nth(ids, n + 1), ids[1] >>, << ids[n] >> }
Hierarchies(ids) ==
    { [ id \in { ids[n] : n \in DOMAIN ids } |->
            CASE id = ids[1] -> c1 [] id = ids[2] -> c2 [] id = ids[3] -> c3 [] OTHER -> c4 ] :
          c1 \in ChildLists(ids, 1), c2 \in ChildLists(ids, 2),
          c3 \in ChildLists(ids, 3), c4 \in ChildLists(ids, 4) }

\* The traversals followed: the wiki's with no or one failing page, the
\* drive's without failures; each starts at the first id with no visited set.
WalkCalls ==
    { [NoWalk EXCEPT !.service = "confluence", !.children = h, !.failing = f,
                     !.root = WikiIds[1], !.status = "called"] :
          h \in Hierarchies(WikiIds),
          f \in { {} } \cup { { WikiIds[n] } : n \in DOMAIN WikiIds } }
    \cup
    { [NoWalk EXCEPT !.service = "gdrive", !.children = h, !.root = DriveItemIds[1],
                     !.status = "called"] :
          h \in Hierarchies(DriveItemIds) }

\* {"id": ..., "error": ...}
ErrorNode(id) == ContentNode("error", id, << >>)
Frame(id) == [ id |-> id, i |-> 1, children |-> << >> ]
NodeKind == IF walk.service = "confluence" THEN "page" ELSE "item"

\* Mutant: the visited set is never consulted.
NeverVisited(id, visited) == FALSE

\* "if page_id in visited_pages" / "if item_id in visited_ids"
AlreadyVisited(id, visited) == id \in visited

\* What a call on `id` does before any child loop: it returns at once on a
\* revisit (None for the wiki, the skipped_cyclic entry for the drive), adds
\* the id to the visited set and requests its content, and returns the error
\* entry when that request failed.
Enter(id) ==
    IF AlreadyVisited(id, walk.visited)
    THEN [ opens |-> FALSE, visited |-> walk.visited, fetched |-> walk.fetched,
           ret |-> IF walk.service = "confluence" THEN None
                   ELSE ContentNode("already_visited", id, << >>) ]
    ELSE [ opens |-> id \notin walk.failing, visited |-> walk.visited \cup {id},
           fetched |-> Append(walk.fetched, id), ret |-> ErrorNode(id) ]

\* Mutant: only a child that was fetched in full is attached.
AttachUnlessError(frame, node) ==
    IF node.kind \in { "page", "item" } THEN [frame EXCEPT !.children = Append(@, node)] ELSE frame

\* "if child_full_content:" / "if child_data:" fetched_data["children"].append(...)
Attach(frame, node) ==
    IF node # None THEN [frame EXCEPT !.children = Append(@, node)] ELSE frame

\* The outermost call.
DescentStart ==
    LET e == Enter(walk.root) IN
    /\ walk.status = "called"
    /\ walk' = IF e.opens
               THEN [walk EXCEPT !.visited = e.visited, !.fetched = e.fetched,
                                 !.stack = << Frame(walk.root) >>, !.status = "running"]
               ELSE [walk EXCEPT !.visited = e.visited, !.fetched = e.fetched,
                                 !.ret = e.ret, !.status = "returned"]
    /\ UNCHANGED << crawlVars, permits, calls, lastOutcome, pager, extraction, threads >>

\* One pass of the child loop of the innermost call: the recursive call on the
\* next child, which returns at once or starts a child loop of its own.
DescendChild ==
    LET depth == Len(walk.stack)
        top == walk.stack[depth]
        child_id == walk.children[top.id][top.i]
        e == Enter(child_id)
        next == [top EXCEPT !.i = @ + 1]
    IN
    /\ walk.status = "running"
    /\ top.i <= Len(walk.children[top.id])
    /\ e.opens => depth < MaxDepth
    /\ walk' = [walk EXCEPT
           !.visited = e.visited,
           !.fetched = e.fetched,
           !.stack = IF e.opens
                     THEN Append([walk.stack EXCEPT ![depth] = next], Frame(child_id))
                     ELSE [walk.stack EXCEPT ![depth] = Attach(next, e.ret)]]
    /\ UNCHANGED << crawlVars, permits, calls, lastOutcome, pager, extraction, threads >>

\* The child loop of the innermost call is over: "return fetched_data".
DescentReturn ==
    LET depth == Len(walk.stack)
        top == walk.stack[depth]
        fetched_data == ContentNode(NodeKind, top.id, top.children)
    IN
    /\ walk.status = "running"
    /\ top.i > Len(walk.children[top.id])
    /\ walk' = IF depth = 1
               THEN [walk EXCEPT !.stack = << >>, !.ret = fetched_data, !.status = "returned"]
               ELSE [walk EXCEPT !.stack =
                         [SubSeq(walk.stack, 1, depth - 1)
                             EXCEPT ![depth - 1] = Attach(@, fetched_data)]]
    /\ UNCHANGED << crawlVars, permits, calls, lastOutcome, pager, extraction, threads >>

WalkInit == InitAll({ s \in Scenarios : s.name = "chain" }, {IdlePager}, {NoExtraction}, WalkCalls)
WalkNext == DescentStart \/ DescendChild \/ DescentReturn
\* A call that can go on does go on.
WalkSpec == WalkInit /\ [][WalkNext]_vars /\ WF_vars(WalkNext)

\* ------------------------------------------------------------ the threads and what they wait for

\* The MAX_WORKERS threads of the executor and main, at the places where a
\* thread can wait: the two module semaphores, the map lock and the queue.
\* One thread is followed by name; the others, which run the same code, are
\* counted by position.  A worker requests the remote links (a Jira permit),
\* fetches the content of a drive link (a drive permit), stores its issue
\* under the lock and puts a discovered issue on the queue; main takes issues
\* from the queue and submits them under the lock until nothing is left.
WorkerPcs == { "idle", "rl_acq", "rl_call", "drv_acq", "drv_call", "ins_lock", "ins", "done" }
Watched == 1
Another == 2
Who == { Watched, Another }

\* The run starts with `seeds` issues on the queue and no task submitted.
ThreadsAt(seeds) ==
    [ watched |-> "idle",
      others |-> [ pc \in WorkerPcs |-> IF pc = "idle" THEN MAX_WORKERS - 1 ELSE 0 ],
      main |-> "get", queued |-> seeds, created |-> seeds ]

At(who, pc) == IF who = Watched THEN threads.watched = pc ELSE threads.others[pc] > 0
Step(th, who, from, to) ==
    IF who = Watched THEN [th EXCEPT !.watched = to]
    ELSE [th EXCEPT !.others[from] = @ - 1, !.others[to] = @ + 1]

\* JIRA_SEMAPHORE.acquire() / GDRIVE_SEMAPHORE.acquire()
ThreadAcquire(who, pc, pool, call) ==
    /\ At(who, pc)
    /\ CanAcquire(pool)
    /\ Acquire(pool)
    /\ threads' = Step(threads, who, pc, call)
    /\ UNCHANGED << crawlVars, calls, lastOutcome, pager, extraction, walk >>

\* The remote call returns and the finally block releases the permit.
ThreadCallReturns(who, call, pool, next) ==
    /\ At(who, call)
    /\ Release(pool)
    /\ threads' = Step(threads, who, call, next)
    /\ UNCHANGED << crawlVars, calls, lastOutcome, pager, extraction, walk >>

\* "with map_and_queue_lock:" of the worker, entry and exit.
ThreadLock(who) ==
    /\ At(who, "ins_lock")
    /\ map_and_queue_lock = Free
    /\ map_and_queue_lock' = who
    /\ threads' = Step(threads, who, "ins_lock", "ins")
    /\ UNCHANGED << sc, mainVars, tasks, issues_processing_queue, master_issues_map,
                    keys_submitted_to_executor_set, globally_processed_issue_keys, histVars,
                    permits, calls, lastOutcome, pager, extraction, walk >>

\* The worker leaves the block, puts the issue it reserved on the queue
\* (queue.Queue() has no size limit, so put returns at once) and returns.
ThreadUnlock(who) ==
    /\ At(who, "ins")
    /\ map_and_queue_lock = who
    /\ map_and_queue_lock' = Free
    /\ threads' =
           IF threads.created < MAX_WORKERS
           THEN [Step(threads, who, "ins", "done") EXCEPT !.queued = @ + 1, !.created = @ + 1]
           ELSE Step(threads, who, "ins", "done")
    /\ UNCHANGED << sc, mainVars, tasks, issues_processing_queue, master_issues_map,
                    keys_submitted_to_executor_set, globally_processed_issue_keys, histVars,
                    permits, calls, lastOutcome, pager, extraction, walk >>

\* issues_processing_queue.get_nowait(): an issue, or queue.Empty at once.
MainGet ==
    /\ threads.main = "get"
    /\ threads' = IF threads.queued > 0
                  THEN [threads EXCEPT !.queued = @ - 1, !.main = "lock"]
                  ELSE [threads EXCEPT !.main = "scan"]
    /\ UNCHANGED << crawlVars, permits, calls, lastOutcome, pager, extraction, walk >>

\* "with map_and_queue_lock:" of main, entry and exit; inside it
\* executor.submit, which hands the issue to a thread that has no task yet
\* (no more issues are submitted than there are threads).
MainAcquire ==
    /\ threads.main = "lock"
    /\ map_and_queue_lock = Free
    /\ map_and_queue_lock' = MainThread
    /\ threads' = [threads EXCEPT !.main = "submit"]
    /\ UNCHANGED << sc, mainVars, tasks, issues_processing_queue, master_issues_map,
                    keys_submitted_to_executor_set, globally_processed_issue_keys, histVars,
                    permits, calls, lastOutcome, pager, extraction, walk >>

MainSubmit(who) ==
    /\ threads.main = "submit"
    /\ map_and_queue_lock = MainThread
    /\ At(who, "idle")
    /\ map_and_queue_lock' = Free
    /\ threads' = [Step(threads, who, "idle", "rl_acq") EXCEPT !.main = "get"]
    /\ UNCHANGED << sc, mainVars, tasks, issues_processing_queue, master_issues_map,
                    keys_submitted_to_executor_set, globally_processed_issue_keys, histVars,
                    permits, calls, lastOutcome, pager, extraction, walk >>

\* The scan of the futures and the loop's exit test.
LiveWorkers ==
    (IF threads.watched \in WorkerPcs \ { "idle", "done" } THEN 1 ELSE 0)
    + SumOver(threads.others, WorkerPcs \ { "idle", "done" })
MainScan ==
    LET active == LiveWorkers > 0 IN
    /\ threads.main = "scan"
    /\ threads' = [threads EXCEPT
           !.main = IF ExitCondition(active, IF threads.queued = 0 THEN << >> ELSE << 1 >>)
                    THEN "done" ELSE "get"]
    /\ UNCHANGED << crawlVars, permits, calls, lastOutcome, pager, extraction, walk >>

ThreadStep(who) ==
    \/ ThreadAcquire(who, "rl_acq", "jira", "rl_call")
    \/ ThreadCallReturns(who, "rl_call", "jira", "drv_acq")
    \/ ThreadAcquire(who, "drv_acq", "gdrive", "drv_call")
    \/ ThreadCallReturns(who, "drv_call", "gdrive", "ins_lock")
    \/ ThreadLock(who)
    \/ ThreadUnlock(who)
MainThreadStep == MainGet \/ MainAcquire \/ (\E who \in Who : MainSubmit(who)) \/ MainScan

ThreadsInit ==
    InitEvery({ s \in Scenarios : s.name = "chain" }, {IdlePager}, {NoExtraction}, {NoWalk},
              { ThreadsAt(seeds) : seeds \in { 1, MAX_WORKERS } })
ThreadsNext ==
    \/ MainGet
    \/ MainAcquire
    \/ \E who \in Who : MainSubmit(who)
    \/ MainScan
    \/ \E who \in Who : ThreadAcquire(who, "rl_acq", "jira", "rl_call")
    \/ \E who \in Who : ThreadCallReturns(who, "rl_call", "jira", "drv_acq")
    \/ \E who \in Who : ThreadAcquire(who, "drv_acq", "gdrive", "drv_call")
    \/ \E who \in Who : ThreadCallReturns(who, "drv_call", "gdrive", "ins_lock")
    \/ \E who \in Who : ThreadLock(who)
    \/ \E who \in Who : ThreadUnlock(who)
\* Every thread that can go on does so, and remote calls return.
ThreadsSpec ==
    /\ ThreadsInit
    /\ [][ThreadsNext]_vars
    /\ WF_vars(MainThreadStep)
    /\ WF_vars(ThreadStep(Watched))
    /\ WF_vars(ThreadStep(Another))

\* ------------------------------------------------------------ properties

Refs(k) ==
    Range(sc.subtasks[k]) \cup Range(sc.issuelinks[k])
        \cup (IF IsEpic(k) THEN Range(sc.epic_children[k]) ELSE {})

RECURSIVE Closure(_)
Closure(S) ==
    LET N == S \cup UNION { Refs(k) : k \in S }
    IN  IF N = S THEN S ELSE Closure(N)

ReachableKeys == Closure(Range(sc.seeds))

NoRaise == \A t \in TaskIds : ~tasks[t].exc
NoFaults == ~callFailed /\ NoRaise
AllTasksDone == \A t \in TaskIds : tasks[t].pc = "done"
FailedStatuses == { "worker_exception", "worker_exception_post_process_fully", "future_exception" }
Flagged(k) ==
    k \in DOMAIN master_issues_map /\ master_issues_map[k].status \in FailedStatuses

\* C1: during one run the content of any issue key is received from the remote
\* at most once, counting the seed query and the batched sub-task, link and
\* epic queries issued for each parent.
AtMostOnceFetch == \A k \in Keys : contentFetches[k] <= 1

Termination ==
    /\ <>(mainpc = "done")
    /\ [](mainpc = "done" /\ sc.name = "cycle" => Cardinality(DOMAIN master_issues_map) = 3)

TerminationWitness ==
    /\ mainpc = "done"
    /\ sc.name = "cycle"
    /\ DOMAIN master_issues_map = {"A", "B", "C"}
    /\ issues_processing_queue = << >>
    /\ AllTasksDone

\* C4: main's loop has exited only if the queue is empty and no submitted
\* task is pending or running.
DrainStop == mainpc = "done" => (issues_processing_queue = << >> /\ AllTasksDone)

DrainStopWitness ==
    /\ mainpc = "done"
    /\ Len(tasks) >= 3
    /\ \E k \in Keys : workerPuts[k] > 0
    /\ issues_processing_queue = << >>
    /\ AllTasksDone

\* C5: when the content fetch of some keys fails (and no worker raises), the
\* run ends with every reachable key in the map: the failed ones as failure
\* placeholders, the others as full records.
FailureIsolation ==
    (mainpc = "done" /\ NoRaise) =>
        \A k \in ReachableKeys :
            /\ k \in DOMAIN master_issues_map
            /\ k \in sc.failKeys => Flagged(k)
            /\ k \notin sc.failKeys => master_issues_map[k].status = "fetched"

\* C6: a worker that raised and has finished left its key in the map with a
\* failed status, and main's loop still exits only at the normal stop
\* condition, with every such key flagged.
ExceptionContained ==
    /\ \A t \in TaskIds : (tasks[t].exc /\ tasks[t].pc = "done") => Flagged(tasks[t].key)
    /\ mainpc = "done" =>
           /\ issues_processing_queue = << >>
           /\ \A t \in TaskIds : tasks[t].pc = "done" /\ (tasks[t].exc => Flagged(tasks[t].key))

ExceptionContainedWitness ==
    /\ mainpc = "done"
    /\ \E t \in TaskIds :
          /\ tasks[t].exc
          /\ master_issues_map[tasks[t].key].status = "worker_exception_post_process_fully"
    /\ \E t \in TaskIds :
          /\ ~tasks[t].exc
          /\ tasks[t].pc = "done"
          /\ master_issues_map[tasks[t].key].status = "fetched"

\* C7: the check and the reservation of a discovered key run with the lock
\* held, each key is reserved by at most one worker, and no key is put on the
\* queue by workers more than once.
CheckPcs == { "sub_chk", "lnk_chk", "epc_chk" }
Reservations(k) ==
    { << t, i >> \in TaskIds \X (1 .. MaxTasks) :
          i \in DOMAIN tasks[t].related_to_queue /\ KeyOf(tasks[t].related_to_queue[i]) = k }
AtomicReserve ==
    /\ \A t \in TaskIds : tasks[t].pc \in CheckPcs => map_and_queue_lock = t
    /\ \A k \in Keys : Cardinality(Reservations(k)) <= 1
    /\ \A k \in keys_submitted_to_executor_set \ Range(sc.seeds) :
           Cardinality(Reservations(k)) = 1
    /\ \A k \in Keys : workerPuts[k] <= 1

AtomicReserveWitness ==
    /\ sc.name = "shared"
    /\ workerPuts["C"] = 1
    /\ \E t1, t2 \in TaskIds :
          /\ tasks[t1].key = "A" /\ tasks[t2].key = "B"
          /\ tasks[t1].pc = "done" /\ tasks[t2].pc = "done"
          /\ tasks[t1].found = <<"C">> /\ tasks[t2].found = <<"C">>

PermitBound == \A service \in Pools : InFlight(service) <= PoolSize[service]

\* C10: every call gives its permit back however it ends: the free permits
\* never exceed the pool size, free and held permits add up to it, and with no
\* call in flight every pool is full.
PermitsReleased ==
    \A pool \in Pools :
        /\ permits[pool] <= PoolSize[pool]
        /\ permits[pool] + Held(pool) = PoolSize[pool]
        /\ SumOver(calls, Sites) = 0 => permits[pool] = PoolSize[pool]

PermitsReleasedWitness ==
    /\ lastOutcome = "exception"
    /\ SumOver(calls, Sites) = 0
    /\ permits = PoolSize

\* C11: a run that has ended has written an output set, and every seed the run
\* was asked for has an entry in it (a full record or a failure placeholder),
\* also when the entry query failed or matched nothing.
AlwaysOutput ==
    mainpc \in { "saved", "returned_early" } =>
        /\ output.saved
        /\ Range(sc.seeds) \subseteq DOMAIN output.processed_issues_data

\* C12: an issue whose remote-link request got HTTP 404 continues with an
\* empty link list and without an exception; it is stored as a normal record,
\* and when the run ends its sub-tasks and linked issues are recorded on it
\* and have entries of their own.
RemoteLinks404(t) ==
    /\ sc.rl_outcome[tasks[t].key] = "404"
    /\ tasks[t].key \notin sc.expanded
    /\ tasks[t].pc \notin { "pending", "rl_acq", "rl_call" }
NotFoundIsEmpty ==
    \A t \in TaskIds :
        RemoteLinks404(t) =>
            LET k == tasks[t].key IN
            /\ tasks[t].remote_links_data = << >>
            /\ k \notin sc.raisers => ~tasks[t].exc
            /\ (tasks[t].pc = "done" /\ ~tasks[t].exc) =>
                   /\ master_issues_map[k].status = "fetched"
                   /\ master_issues_map[k].obj = tasks[t].obj
            /\ (mainpc = "done" /\ NoFaults) =>
                   /\ master_issues_map[k].subtasks_data = SubtaskKeys(k)
                   /\ Range(master_issues_map[k].linked_issues_data) = Range(LinkedKeys(k))
                   /\ Refs(k) \subseteq DOMAIN master_issues_map

NotFoundIsEmptyWitness ==
    /\ sc.name = "rl404"
    /\ mainpc = "done"
    /\ \E t \in TaskIds : RemoteLinks404(t) /\ tasks[t].key = "A"
    /\ master_issues_map["A"].status = "fetched"
    /\ master_issues_map["A"].subtasks_data = <<"C">>
    /\ master_issues_map["A"].linked_issues_data = <<"B">>
    /\ { "B", "C" } \subseteq DOMAIN master_issues_map

\* C13: a fetcher call in which a request failed with an HTTP error (other than
\* the expected 404 of the remote-link request) or a network failure hands its
\* caller something other than a plain list, which is what a successful call
\* returns.
TypedFailure ==
    (pager.status \in { "returned", "raised" } /\ pager.failed) => pager.ret.kind # "list"

\* C14: a related-items listing (wiki child pages, ticket search, drive folder
\* listing) that ran without a failing request returns exactly the items the
\* remote holds, each once and in server order; for 250 items it issued exactly
\* 3 page requests, which returned 100, 100 and 50 items.
ListingFetchers == { "fetch_child_pages", "search_jira_with_jql", "list_folder" }
PageSizesSeen == [ i \in DOMAIN pager.requests |-> pager.requests[i].got ]
PaginationCorrect ==
    (pager.fetcher \in ListingFetchers /\ pager.status = "returned" /\ ~pager.failed) =>
        /\ pager.ret.items = pager.server
        /\ Len(pager.server) = 250 => PageSizesSeen = << 100, 100, 50 >>

\* C15 (as claimed): the wiki child-page listing, the ticket search and
\* _paginated_request request pages with strictly increasing offsets, issue no
\* request after a page that is empty or shorter than the page size, and
\* follow every full page with another request.
StopRuleFetchers == { "fetch_child_pages", "search_jira_with_jql", "paginated_request" }
LimitOf(fetcher) ==
    CASE fetcher = "fetch_child_pages" -> fetch_child_pages_limit
      [] fetcher = "paginated_request" -> paginated_request_limit
      [] OTHER -> MAX_RESULTS_PER_JIRA_PAGE
OffsetsIncrease ==
    \A i, j \in DOMAIN pager.requests :
        i < j => pager.requests[i].start < pager.requests[j].start
Ended == pager.status \in { "returned", "raised" }
LastRequest == pager.requests[Len(pager.requests)]
ShortPageRule ==
    /\ \A i \in 1 .. Len(pager.requests) - 1 : pager.requests[i].got = LimitOf(pager.fetcher)
    /\ (Ended /\ ~pager.failed) =>
           /\ pager.requests # << >>
           /\ LastRequest.got < LimitOf(pager.fetcher)
StopRule ==
    pager.fetcher \in StopRuleFetchers => (OffsetsIncrease /\ ShortPageRule)

\* C15 (amended): the offsets increase strictly in all three.  The wiki
\* child-page listing and _paginated_request stop exactly at the first empty
\* or short page.  The ticket search stops exactly at the first page that is
\* empty or whose end reaches the total the server reports, so a full page that
\* ends the listing is not followed by another request.
TotalRule ==
    /\ \A i \in 1 .. Len(pager.requests) - 1 :
           /\ pager.requests[i].got > 0
           /\ pager.requests[i].start + pager.requests[i].got < Len(pager.server)
    /\ (Ended /\ ~pager.failed) =>
           /\ pager.requests # << >>
           /\ \/ LastRequest.got = 0
              \/ LastRequest.start + LastRequest.got >= Len(pager.server)
StopRuleAmended ==
    /\ pager.fetcher \in StopRuleFetchers => OffsetsIncrease
    /\ pager.fetcher \in { "fetch_child_pages", "paginated_request" } => ShortPageRule
    /\ pager.fetcher = "search_jira_with_jql" => TotalRule

StopRuleAmendedWitness ==
    /\ pager.fetcher = "search_jira_with_jql"
    /\ pager.status = "returned"
    /\ ~pager.failed
    /\ Len(pager.server) = 2 * MAX_RESULTS_PER_JIRA_PAGE
    /\ PageSizesSeen = << MAX_RESULTS_PER_JIRA_PAGE, MAX_RESULTS_PER_JIRA_PAGE >>

\* C16: fetch_subtasks / fetch_linked_issues resolve the N distinct keys an
\* issue names with the pages of one batched query: never more than
\* ceil(N / 100) requests, exactly that many when the call ends without a
\* failed request (none for N = 0, one for N <= 100), and the call then
\* returns the N issues.
DistinctKeys == Cardinality(Range(pager.keys))
CeilDiv(n, d) == (n + d - 1) \div d
BatchedResolution ==
    pager.fetcher \in BatchFetchers =>
        /\ Len(pager.requests) <= CeilDiv(DistinctKeys, MAX_RESULTS_PER_JIRA_PAGE)
        /\ (Ended /\ ~pager.failed) =>
               /\ Len(pager.requests) = CeilDiv(DistinctKeys, MAX_RESULTS_PER_JIRA_PAGE)
               /\ Len(pager.ret.items) = DistinctKeys
               /\ Range(pager.ret.items) = Range(pager.keys)

BatchedResolutionWitness ==
    /\ pager.fetcher = "fetch_linked_issues"
    /\ pager.status = "returned"
    /\ ~pager.failed
    /\ Len(pager.keys) = MaxItems + 1
    /\ DistinctKeys = MaxItems
    /\ Len(pager.requests) = 3

NoRevisit == \A id \in RemoteIds : remoteFetches[id] <= 1

\* C19: in the result of a recursive wiki fetch every page lists one entry per
\* child page, in order: the child's own result, or an "already visited"
\* marker where the child had been visited before in the traversal.
RECURSIVE RevisitsMarked(_, _)
RevisitsMarked(node, children_of) ==
    /\ Len(node.children) = Len(children_of[node.id])
    /\ \A i \in DOMAIN node.children :
           LET child == node.children[i] IN
           /\ child.id = children_of[node.id][i]
           /\ child.kind = "already_visited" \/ RevisitsMarked(child, children_of)
AlreadyVisitedSentinel ==
    \A t \in TaskIds : \A i \in DOMAIN tasks[t].remote_links_data :
        LET content == tasks[t].remote_links_data[i].content IN
        content.kind = "page" => RevisitsMarked(content, ChildPages)

\* C20 as stated: with the skip flag set no wiki page and no drive item is
\* requested, every remote link of an issue is on its record, each one marked
\* content_skipped, and the crawl records the same keys, sub-tasks and linked
\* issues as without the flag.
NoRemoteContentCall == \A id \in RemoteIds : remoteFetches[id] = 0
CrawlUnchanged ==
    /\ DOMAIN master_issues_map = ReachableKeys
    /\ \A k \in DOMAIN master_issues_map :
           /\ master_issues_map[k].subtasks_data = SubtaskKeys(k)
           /\ Range(master_issues_map[k].linked_issues_data) = Range(LinkedKeys(k))
LinksRecorded(k) ==
    LET data == master_issues_map[k].remote_links_data IN
    /\ Len(data) = Len(sc.remotelinks[k])
    /\ \A i \in DOMAIN data : data[i].link = sc.remotelinks[k][i] /\ data[i].content = None
SkipRemoteContent ==
    sc.skip_remote =>
        /\ NoRemoteContentCall
        /\ (mainpc \in { "done", "saved" } /\ NoFaults) =>
               /\ CrawlUnchanged
               /\ \A k \in DOMAIN master_issues_map :
                      /\ LinksRecorded(k)
                      /\ \A i \in DOMAIN master_issues_map[k].remote_links_data :
                             master_issues_map[k].remote_links_data[i].content_skipped

\* C20, amended: as above, but a link is marked content_skipped exactly when
\* its "object" is a mapping; a link with a malformed object is recorded and
\* left unmarked.
SkipRemoteContentAmended ==
    sc.skip_remote =>
        /\ NoRemoteContentCall
        /\ (mainpc \in { "done", "saved" } /\ NoFaults) =>
               /\ CrawlUnchanged
               /\ \A k \in DOMAIN master_issues_map :
                      /\ LinksRecorded(k)
                      /\ \A i \in DOMAIN master_issues_map[k].remote_links_data :
                             LET entry == master_issues_map[k].remote_links_data[i]
                             IN  entry.content_skipped = entry.link.object_is_dict

SkipRemoteContentAmendedWitness ==
    /\ sc.name = "skip"
    /\ sc.skip_remote
    /\ mainpc = "saved"
    /\ NoFaults
    /\ DOMAIN master_issues_map = { "A", "B", "C" }
    /\ Len(master_issues_map["A"].remote_links_data) = 6
    /\ master_issues_map["A"].remote_links_data[1].content_skipped
    /\ ~master_issues_map["A"].remote_links_data[6].content_skipped
    /\ Len(master_issues_map["B"].remote_links_data) = 2
    /\ master_issues_map["B"].remote_links_data[2].content_skipped

\* C22: each extraction returns the embedded id for every supported URL shape:
\* the drive's open?id=ID..., file/d/ID/... and drive/folders/ID..., and the
\* wiki's ...?pageId=ID... and .../pages/ID/... with a numeric ID.
StartsWithSlash(tail) == tail # << >> /\ tail[1] = "/"
SupportedShape ==
    IF extraction.fn = "extract_google_drive_id"
    THEN \/ extraction.shape \in { "open_id", "folders" }
         \/ extraction.shape = "file_d" /\ StartsWithSlash(extraction.tail)
    ELSE \/ extraction.shape = "page_id_param"
         \/ /\ extraction.shape = "pages_segment"
            /\ extraction.id \in DigitWords
            /\ StartsWithSlash(extraction.tail)
IdByShape ==
    (extraction.status = "returned" /\ SupportedShape) =>
        extraction.ret = Id(<< extraction.id >>)

\* C21: a link to the wiki or to the drive whose URL yields no id gets no
\* content and causes no fetch: every content fetch of the run belongs to the
\* content of some well-formed link.  The other links of the issue are still
\* fetched, the worker does not raise, the issue is stored as a normal record
\* and its sub-tasks, linked issues and epic children are crawled.
NoIdLink(entry) ==
    /\ entry.link.object_is_dict
    /\ entry.link.service \in { "confluence", "gdrive" }
    /\ entry.link.id = ""
LinksProcessed(t) == tasks[t].pc \notin { "pending", "rl_acq", "rl_call", "links" }
RECURSIVE FetchesIn(_)
FetchesIn(content) ==
    IF content.kind \in { "page", "item" }
    THEN LET n[i \in 0 .. Len(content.children)] ==
                 IF i = 0 THEN 1 ELSE n[i - 1] + FetchesIn(content.children[i])
         IN  n[Len(content.children)]
    ELSE 0
FetchesOf(remote_links_data) ==
    LET n[i \in 0 .. Len(remote_links_data)] ==
            IF i = 0 THEN 0 ELSE n[i - 1] + FetchesIn(remote_links_data[i].content)
    IN  n[Len(remote_links_data)]
FetchesOfTasks ==
    LET n[t \in 0 .. Len(tasks)] ==
            IF t = 0 THEN 0
            ELSE n[t - 1] + (IF LinksProcessed(t) THEN FetchesOf(tasks[t].remote_links_data) ELSE 0)
    IN  n[Len(tasks)]
FailsSoft ==
    /\ SumOver(remoteFetches, RemoteIds) = FetchesOfTasks
    /\ \A t \in TaskIds :
           LET data == tasks[t].remote_links_data
               k == tasks[t].key
           IN  (LinksProcessed(t) /\ ~sc.skip_remote /\ \E i \in DOMAIN data : NoIdLink(data[i])) =>
                   /\ \A i \in DOMAIN data :
                          IF NoIdLink(data[i]) THEN data[i] = LinkData(data[i].link)
                          ELSE (data[i].link.object_is_dict
                                    /\ data[i].link.service \in { "confluence", "gdrive" }) =>
                                   /\ data[i].content.kind \in { "page", "item" }
                                   /\ data[i].content.id = data[i].link.id
                   /\ k \notin sc.raisers => ~tasks[t].exc
                   /\ (tasks[t].pc \notin { "epic_acq", "epic_call", "ins_lock", "ins" }
                          /\ ~tasks[t].exc) =>
                          /\ master_issues_map[k].status = "fetched"
                          /\ master_issues_map[k].remote_links_data = data
                   /\ (mainpc = "done" /\ NoFaults) =>
                          /\ master_issues_map[k].subtasks_data = SubtaskKeys(k)
                          /\ Range(master_issues_map[k].linked_issues_data) = Range(LinkedKeys(k))
                          /\ Refs(k) \subseteq DOMAIN master_issues_map

FailsSoftWitness ==
    /\ sc.name = "wiki"
    /\ mainpc = "done"
    /\ NoFaults
    /\ master_issues_map["C"].status = "fetched"
    /\ Len(master_issues_map["C"].remote_links_data) = 3
    /\ NoIdLink(master_issues_map["C"].remote_links_data[1])
    /\ NoIdLink(master_issues_map["C"].remote_links_data[2])
    /\ master_issues_map["C"].remote_links_data[3].content = ContentNode("item", "D1", << >>)
    /\ NoIdLink(master_issues_map["A"].remote_links_data[5])
    /\ master_issues_map["A"].linked_issues_data = << "B" >>
    /\ DOMAIN master_issues_map = { "A", "B", "C" }

\* C23: once the executor runs, a step changes keys_submitted_to_executor_set
\* or master_issues_map only if the thread taking it holds map_and_queue_lock
\* (and leaves the block with it); a thread inside a block that reads or
\* writes either structure holds the lock, so at most one thread is inside
\* such a block.
SectionPcs == { "ins", "subinit", "sub_chk", "lnkinit", "lnk_chk", "epc_chk", "exc" }
MainSectionPcs == { "init_chk", "drain_chk" }
InSection == { t \in TaskIds : tasks[t].pc \in SectionPcs }
    \cup (IF mainpc \in MainSectionPcs THEN { MainThread } ELSE {})
Moved(holder) ==
    IF holder = MainThread THEN mainpc' # mainpc
    ELSE holder \in TaskIds /\ tasks'[holder] # tasks[holder]
SingleLock ==
    /\ [](InSection \subseteq { map_and_queue_lock } /\ Cardinality(InSection) <= 1)
    /\ [][(master_issues_map' # master_issues_map
              \/ keys_submitted_to_executor_set' # keys_submitted_to_executor_set) =>
             \/ mainpc = "seed" /\ tasks = << >>
             \/ /\ map_and_queue_lock # Free
                /\ map_and_queue_lock \in InSection
                /\ Moved(map_and_queue_lock)
                /\ map_and_queue_lock' = Free]_vars

SingleLockWitness ==
    /\ mainpc = "drain_chk"
    /\ map_and_queue_lock = MainThread
    /\ InSection = { MainThread }
    /\ \E t1, t2 \in TaskIds :
          /\ tasks[t1].pc = "put"
          /\ tasks[t2].pc = "ins_lock"
    /\ keys_submitted_to_executor_set # {}
    /\ master_issues_map # EmptyMap

\* C24: a worker that waits for a permit, holds one during a remote call,
\* fetches remote content or puts on the queue does not hold
\* map_and_queue_lock, nor does main while it takes from the queue or scans
\* the futures; the lock is held only inside the blocks that touch the
\* submitted set and the result map.
PermitWaitPcs == { "rl_acq", "epic_acq", "sub_acq", "lnk_acq" }
BlockingPcs == PermitWaitPcs \cup CallPcs \cup { "links", "put" }
MainQueuePcs == { "init_get", "drain_get" }
FrozenRecords ==
    [][\A k \in DOMAIN master_issues_map :
           /\ k \in DOMAIN master_issues_map'
           /\ master_issues_map'[k] = master_issues_map[k]]_vars

\* C26: on every hierarchy, cyclic ones included, a recursive fetch that
\* starts with an empty visited set returns, and during it no id's content is
\* requested twice.  On the wiki and the drive of the crawl the result is the
\* one the link loop attaches.
FetchedOnce(fetched) ==
    \A i, j \in DOMAIN fetched : fetched[i] = fetched[j] => i = j
SameAsCrawl ==
    IF walk.service = "confluence"
    THEN (walk.failing = {} /\ \A id \in DOMAIN ChildPages : walk.children[id] = ChildPages[id]) =>
             LET r == fetch_content_recursive(walk.root, {})
             IN  walk.ret = r.ret /\ walk.fetched = r.fetched /\ walk.visited = r.visited
    ELSE (\A id \in DOMAIN DriveChildren : walk.children[id] = DriveChildren[id]) =>
             LET r == fetch_google_drive_item_recursive(walk.root, {})
             IN  walk.ret = r.ret /\ walk.fetched = r.fetched /\ walk.visited = r.visited
DescentTerminates ==
    /\ <>(walk.status = "returned")
    /\ [](FetchedOnce(walk.fetched) /\ Len(walk.stack) < MaxDepth)
    /\ [](walk.status = "returned" => SameAsCrawl)

DescentTerminatesWitness ==
    /\ walk.status = "returned"
    /\ walk.service = "confluence"
    /\ walk.failing = {}
    /\ walk.children["P1"] = << "P2", "P3" >>
    /\ walk.children["P2"] = << "P3" >>
    /\ walk.children["P3"] = << "P1" >>
    /\ walk.fetched = << "P1", "P2", "P3" >>
    /\ walk.ret = fetch_content_recursive("P1", {}).ret

\* C30: in the recursive wiki fetch of a page tree whose root is fetched, a
\* child whose content request fails is listed by its parent as an error entry
\* with the child's id and no children, every sibling of it is requested and
\* attached in the listed order, no child of the failed page is requested,
\* and the page that lists the failed child is returned as a page, not as an
\* error entry.
RECURSIVE NodesOf(_)
NodesOf(node) ==
    {node} \cup UNION { NodesOf(node.children[i]) : i \in DOMAIN node.children }
Below[n \in 0..4] ==
    IF n = 0 THEN { walk.root }
    ELSE Below[n - 1] \cup UNION { Range(walk.children[id]) : id \in Below[n - 1] }
TreeFrom(ids) ==
    /\ \A id \in ids : walk.root \notin Range(walk.children[id])
    /\ \A id \in ids : FetchedOnce(walk.children[id])
    /\ \A a, b \in ids : a # b => Range(walk.children[a]) \cap Range(walk.children[b]) = {}
PageTree == TreeFrom(Below[4])
StartedFor(k) == { t \in TaskIds : tasks[t].key = k /\ tasks[t].pc # "pending" }
StartedOncePerKey == \A k \in Keys : Cardinality(StartedFor(k)) <= 1

\* B's seed copy is still queued when the worker of A, which lists B, is done.
StartedOncePerKeyWitness ==
    /\ sc.name = "seedref"
    /\ \E t \in StartedFor("A") : tasks[t].pc = "done"
    /\ master_issues_map["A"].linked_issues_data = << "B" >>
    /\ \E i \in DOMAIN issues_processing_queue :
           /\ KeyOf(issues_processing_queue[i]) = "B"
           /\ issues_processing_queue[i][2] = "seed"
    /\ workerPuts["B"] = 0

\* C28: when main's processing loop has exited, every key that was added to
\* keys_submitted_to_executor_set is a key of master_issues_map, also when a
\* worker raised between reserving the keys it found and putting them on the
\* queue.
ReservedKeysKept ==
    mainpc = "done" => keys_submitted_to_executor_set \subseteq DOMAIN master_issues_map

\* C29: with MAX_WORKERS threads, the permit pools of 5 and 2, the map lock
\* and the queue, before main's loop has exited some live thread can always
\* take a step, and whatever a thread waits for is held by a thread that is
\* not waiting; a worker that waits for a permit or for the lock gets it as
\* long as remote calls return; main's read of the queue never waits.
WaitsFor(pc) ==
    CASE pc = "rl_acq" -> ~CanAcquire("jira")
      [] pc = "drv_acq" -> ~CanAcquire("gdrive")
      [] pc = "ins_lock" -> map_and_queue_lock # Free
      [] OTHER -> FALSE
WaitPcs == { "rl_acq", "drv_acq", "ins_lock" }
InCall(call) == (IF threads.watched = call THEN 1 ELSE 0) + threads.others[call]
MainBlocked == threads.main = "lock" /\ map_and_queue_lock # Free
SomeThreadRuns ==
    \/ threads.main \notin { "lock", "done" }
    \/ threads.main = "lock" /\ ~MainBlocked
    \/ \E who \in Who : \E pc \in WorkerPcs \ { "idle", "done" } : At(who, pc) /\ ~WaitsFor(pc)
HeldByRunningThread ==
    /\ ~CanAcquire("jira") => InCall("rl_call") = MAX_CONCURRENT_JIRA_CALLS
    /\ ~CanAcquire("gdrive") => InCall("drv_call") = MAX_CONCURRENT_GDRIVE_CALLS
    /\ map_and_queue_lock = MainThread => threads.main = "submit"
    /\ map_and_queue_lock \in Who => At(map_and_queue_lock, "ins")
DeadlockFree ==
    /\ [](threads.main # "done" => SomeThreadRuns /\ ENABLED ThreadsNext)
    /\ [](HeldByRunningThread)
    /\ [](threads.main = "get" => ENABLED MainGet)
    /\ (threads.watched \in WaitPcs) ~> (threads.watched \notin WaitPcs)

\* Five threads are in a Jira call, two in a drive call and one holds the
\* lock; the followed thread waits for a Jira permit and another thread for
\* a drive permit.
DeadlockFreeWitness ==
    /\ ~CanAcquire("jira")
    /\ ~CanAcquire("gdrive")
    /\ map_and_queue_lock = Another
    /\ threads.watched = "rl_acq"
    /\ threads.others["drv_acq"] > 0

====
